---- MODULE Spec2Model ----
(***************************************************************************)
(* A model of the reconciliation engine of g8r: the dependency planner     *)
(* (utils/dag.rs), the controller's batch loop (controller/mod.rs) and the *)
(* stack manager's per-stack tasks (stack/manager.rs).                     *)
(***************************************************************************)
EXTENDS Integers, Sequences, FiniteSets, TLC

\* ------------------------------------------------------------------------
\* Bounds
\* ------------------------------------------------------------------------

\* Longest depends_on list drawn for a duty of the planner's inputs.
MaxDeps == 2

\* Duty names the inputs are drawn from.
Names == {"a", "b", "c"}

\* depends_on lists: sequences, so that a name may be listed twice.
DepSeqs == UNION {[1..n -> Names] : n \in 0..MaxDeps}

\* Longest depends_on list of a duty of a reconciled configuration.
CtlMaxDeps == 1

\* Duties another client of the API creates while a reconciliation runs.
MaxCreates == 1

CtlDepSeqs == UNION {[1..n -> Names] : n \in 0..CtlMaxDeps}

\* Reconciliation loops spawned and manual syncs called over a run of the
\* stack manager.
MaxTasks == 2

\* Rows create_stack adds to the stacks table over a run.
MaxStackCreates == 1

\* Controller calls made on the one duty of a module's configuration.
MaxOps == 4

\* Most g8r_* calls in the source of a loaded configuration.
MaxCalls == 3

\* Calls made on the key-value stores of one variable context.
MaxKvOps == 3

\* Calls made on one controller's registry and rosters table.
MaxSelOps == 4

\* The stacks, by name, and the commits a stack's branch can stand at. The
\* rows the table starts with carry their name as id.
StackIds == {1, 2}
Versions == {"v1", "v2"}

VARIABLES
    dagNodes,   \* DependencyGraph.duties: the names of the duty set
    dagEdges,   \* DependencyGraph.edges: name -> depends_on list
    dagRes,     \* the result of the last planner call, or NoRes
    ctlMode,    \* the entry point: "nickel", "dag", "duty" or "destroy"
    cfg,        \* the configuration: names, deps, ref; target for "duty"
    db,         \* the duties table: name -> [deps, spec, status]
    ctlPc,      \* where the reconciliation stands
    ctlPlan,    \* execution_plan
    ctlBatch,   \* batch_idx + 1
    ctlTodo,    \* the names of the batch not yet taken
    ctlCur,     \* current_duties: name -> spec
    ctlCtx,     \* the context ctlCur was evaluated under
    ctlOuts,    \* duties_outputs (runtime_outputs): name -> outputs
    ctlDuty,    \* the duty being reconciled, with its module and roster
    ctlErr,     \* the error the reconciliation returned
    ctlLog,     \* the module calls and status writes made, in order
    ctlRosters, \* the rows of the rosters table the controller reads
    ctlQueue,   \* the rosters of the configuration not yet written
    ctlPend,    \* the duties of the configuration not yet upserted
    ctlOthers,  \* the duties another client of the API created during the run
    stacks,     \* the stacks table: name -> [id, status, last_sync_version]
    stackSeq,   \* the next value of the serial the stacks table takes its ids from
    remote,     \* the tip of each stack's remote branch
    repoHead,   \* HEAD of each stack's working copy (local_path), "" before the clone
    tasks,      \* the reconciliation loops spawned and the sync calls made
    handles,    \* StackManager.tasks: row id -> index of the task held, 0 for none
    inserts,    \* handles spawned and not yet inserted into StackManager.tasks;
                \* one spawned by start carries the rows start has yet to go through
    modKind,    \* the module that supports the duty's type
    modOpt,     \* iam-user: spec.create_access_key; acm-certificate: whether the
                \* provider reports the certificate Issued
    env,        \* the provider account: the resources that exist
    modRow,     \* the duty's row of the duties table: exists, status
    modLast,    \* the last controller call: op, res, doc
    modOps,     \* the number of controller calls made
    modCalls,   \* the controller calls that are running, by caller
    ldSrc,      \* the configuration source: duty name -> the g8r_* calls of its spec
    ldOut,      \* what the loader returned: loader, ok, duties
    ldPc,       \* "init" before the load, "loaded" after
    kvStack,    \* StackContext.variables: key -> [value, var_type]
    kvOrder,    \* the order in which kvStack's HashMap iterates over its keys
    kvGlobal,   \* GlobalKvStore, in memory: key -> [value, var_type]
    kvLast,     \* the last call on the stores, with its arguments and result
    kvOps,      \* the number of calls made
    kvCallers,  \* the tasks that call set_if_not_exists, each with its place
    selRosters, \* the rows of the rosters table
    selModules, \* the modules handed to register_module, in that order
    selIter,    \* Controller.modules in the order its HashMap iterates
    selLast,    \* the last call of match_roster or select_module, with its result
    selOps,     \* the number of calls made
    rtWebsite,  \* whether the duty's spec has a website_config
    rtOutcomes, \* what the provider answers to the i-th attempt: TRUE for Ok
    rtRes       \* the call made, its result and the attempts it took

dagVars == <<dagNodes, dagEdges, dagRes>>

ctlVars == <<ctlMode, cfg, db, ctlPc, ctlPlan, ctlBatch, ctlTodo, ctlCur, ctlCtx,
             ctlOuts, ctlDuty, ctlErr, ctlLog, ctlRosters, ctlQueue, ctlPend, ctlOthers>>

stackVars == <<stacks, stackSeq, remote, repoHead, tasks, handles, inserts>>

modVars == <<modKind, modOpt, env, modRow, modLast, modOps, modCalls>>

loadVars == <<ldSrc, ldOut, ldPc>>

kvVars == <<kvStack, kvOrder, kvGlobal, kvLast, kvOps, kvCallers>>

selVars == <<selRosters, selModules, selIter, selLast, selOps>>

rtVars == <<rtWebsite, rtOutcomes, rtRes>>

vars == <<dagVars, ctlVars, stackVars, modVars, loadVars, kvVars, selVars, rtVars>>

\* What the actions of one component leave alone.
notDag == <<ctlVars, stackVars, modVars, loadVars, kvVars, selVars, rtVars>>
notCtl == <<dagVars, stackVars, modVars, loadVars, kvVars, selVars, rtVars>>
notStack == <<dagVars, ctlVars, modVars, loadVars, kvVars, selVars, rtVars>>
notMod == <<dagVars, ctlVars, stackVars, loadVars, kvVars, selVars, rtVars>>
notLoad == <<dagVars, ctlVars, stackVars, modVars, kvVars, selVars, rtVars>>
notKv == <<dagVars, ctlVars, stackVars, modVars, loadVars, selVars, rtVars>>
notSel == <<dagVars, ctlVars, stackVars, modVars, loadVars, kvVars, rtVars>>
notRetry == <<dagVars, ctlVars, stackVars, modVars, loadVars, kvVars, selVars>>

\* ------------------------------------------------------------------------
\* utils/dag.rs
\* ------------------------------------------------------------------------

NoRes == [op |-> "none"]

ErrMissing == "does not exist"
ErrCircular == "Circular dependency detected in duty graph"

Range(s) == {s[i] : i \in DOMAIN s}

\* Number of entries of the list s that lie in the set S.
CountIn(s, S) == Cardinality({i \in DOMAIN s : s[i] \in S})

MissingDeps_None(nodes, edges) == {}

\* dag.rs:50-62, the check made for every entry of every depends_on list.
MissingDeps(nodes, edges) ==
    UNION {{<<n, d>> : d \in Range(edges[n]) \ nodes} : n \in nodes}

InDegree_Distinct(nodes, edges) == [n \in nodes |-> Cardinality(Range(edges[n]))]

\* dag.rs:59, in_degree after the first loop: one count per list entry.
InDegree(nodes, edges) == [n \in nodes |-> Len(edges[n])]

Released_OnAnyDep(before, after) == before > 0 /\ after < before

\* dag.rs:83-87, a dependent enters the queue when its counter reaches zero:
\* before the round it was positive and the round's nodes account for all of
\* what was left.
Released(before, after) == before > 0 /\ after = 0

\* dag.rs:73-96, one round per batch: the queue's content at the start of the
\* round is the batch; every entry of a dependent's list that names a node of
\* the batch decrements the dependent's counter once.
RECURSIVE KahnRounds(_, _, _, _, _)
KahnRounds(nodes, edges, indeg, queue, batches) ==
    IF queue = {} THEN batches
    ELSE LET after == [n \in nodes |-> indeg[n] - CountIn(edges[n], queue)]
             next  == {n \in nodes : Released(indeg[n], after[n])}
         IN  KahnRounds(nodes, edges, after, next, Append(batches, queue))

RECURSIVE SumLen(_)
SumLen(bs) == IF bs = <<>> THEN 0 ELSE Cardinality(Head(bs)) + SumLen(Tail(bs))

CountMismatch_BatchCount(batches, nodes) == Len(batches) > Cardinality(nodes)

\* dag.rs:98-99, the cycle test: fewer names were emitted than there are duties.
CountMismatch(batches, nodes) == SumLen(batches) # Cardinality(nodes)

\* dag.rs:41-104. A batch is a set: the order inside a batch is the iteration
\* order of a HashMap and differs from run to run.
TopologicalSort(nodes, edges) ==
    IF MissingDeps(nodes, edges) # {}
    THEN [ok |-> FALSE, err |-> ErrMissing, batches |-> <<>>]
    ELSE LET indeg   == InDegree(nodes, edges)
             first   == {n \in nodes : indeg[n] = 0}
             batches == KahnRounds(nodes, edges, indeg, first, <<>>)
         IN  IF CountMismatch(batches, nodes)
             THEN [ok |-> FALSE, err |-> ErrCircular, batches |-> <<>>]
             ELSE [ok |-> TRUE, err |-> "", batches |-> batches]

\* dag.rs:110-125: the same batches, each name replaced by its duty.
GetExecutionPlan(nodes, edges) == TopologicalSort(nodes, edges)

\* ------------------------------------------------------------------------
\* nickel/evaluator.rs: the runtime context, rendered and evaluated
\* ------------------------------------------------------------------------

\* A string is a sequence of characters: "x" an ordinary character, "Q" the
\* double quote, "B" the backslash.
Values == {<<"x">>, <<"Q">>, <<"B">>}

RECURSIVE EscapeQuotes(_)
\* evaluator.rs:32, s.replace('"', "\\\""): only the double quote is escaped.
EscapeQuotes(s) ==
    IF s = <<>> THEN <<>>
    ELSE (IF Head(s) = "Q" THEN <<"B", "Q">> ELSE <<Head(s)>>) \o EscapeQuotes(Tail(s))

\* evaluator.rs:26-54, json_to_nickel on a string value.
ValueToNickel(s) == <<"Q">> \o EscapeQuotes(s) \o <<"Q">>

RECURSIVE NickelStringBody(_, _)
\* What the configuration language reads between the quotes of a string
\* literal: a backslash escapes the quote or the backslash that follows it,
\* an unescaped quote ends the literal and must end the text.
NickelStringBody(t, acc) ==
    IF t = <<>> THEN [ok |-> FALSE, val |-> <<>>]
    ELSE IF Head(t) = "Q"
         THEN [ok |-> Tail(t) = <<>>, val |-> IF Tail(t) = <<>> THEN acc ELSE <<>>]
    ELSE IF Head(t) = "B"
         THEN IF Len(t) >= 2 /\ t[2] \in {"Q", "B"}
              THEN NickelStringBody(Tail(Tail(t)), Append(acc, t[2]))
              ELSE [ok |-> FALSE, val |-> <<>>]
    ELSE NickelStringBody(Tail(t), Append(acc, Head(t)))

NickelParseString(t) ==
    IF t # <<>> /\ Head(t) = "Q" THEN NickelStringBody(Tail(t), <<>>)
    ELSE [ok |-> FALSE, val |-> <<>>]

\* A duty's spec as its module sees it.
SpecLit == [kind |-> "literal", val |-> <<>>]
SpecPlaceholder == [kind |-> "placeholder", val |-> <<>>]
SpecValue(v) == [kind |-> "value", val |-> v]
SpecToken == [kind |-> "token", val |-> <<>>]

\* The one reference of a configuration to runtime.duties.<target>.outputs,
\* made by the spec of <duty>; guarded by std.record.has_field or not.
NoRef == [duty |-> "", target |-> "", guarded |-> FALSE]

\* Evaluation contexts: the plain evaluation binds no `runtime`.
PlainCtx == [bound |-> FALSE, duties |-> <<>>]
RuntimeCtx(outs) == [bound |-> TRUE, duties |-> outs]

EvalFailed == [ok |-> FALSE, duties |-> <<>>]

\* evaluator.rs:57-80 (load_config, plain) and 265-340
\* (load_duties_with_runtime_context): `nickel export` of the source, under
\* `let runtime = <rendered context> in` when a context is given. The export
\* evaluates every duty, so one failing spec fails the whole load.
EvalDuties(c, ctx) ==
    LET parsed == [d \in DOMAIN ctx.duties |->
                      NickelParseString(ValueToNickel(ctx.duties[d]))]
        refers == c.ref # NoRef
    IN  IF ~ctx.bound
        THEN IF refers THEN EvalFailed
             ELSE [ok |-> TRUE, duties |-> [d \in c.names |-> SpecLit]]
        ELSE IF \E d \in DOMAIN parsed : ~parsed[d].ok THEN EvalFailed
        ELSE IF refers /\ ~c.ref.guarded /\ c.ref.target \notin DOMAIN parsed
             THEN EvalFailed
        ELSE [ok |-> TRUE,
              duties |-> [d \in c.names |->
                  IF refers /\ c.ref.duty = d
                  THEN IF c.ref.target \in DOMAIN parsed
                       THEN SpecValue(parsed[c.ref.target].val)
                       ELSE SpecPlaceholder
                  ELSE SpecLit]]

\* ------------------------------------------------------------------------
\* nickel/evaluator.rs, utils/instruction.rs: instruction rewriting
\* ------------------------------------------------------------------------

\* The order in which the duties stand in a configuration source.
NameOrder == <<"a", "b", "c">>

\* The first argument of a g8r_* call. The variable context of a load holds
\* "k1" among its constants and in its global store, and an empty stack
\* context.
Keys == {"k1", "k2"}
ConstantKeys == {"k1"}
GlobalKeys == {"k1"}

\* evaluator.rs:512-516, the patterns of process_g8r_functions, in order.
InstructionPatterns == <<"g8r_output", "g8r_secret", "g8r_env">>

\* evaluator.rs:419-427 and 513-515: the number of groups a function's
\* pattern captures, which is the number of arguments a call must be written
\* with to match it.
Captures(fn) == IF fn \in {"g8r_output", "g8r_set"} THEN 2 ELSE 1

\* The argument lists a call is written with: a key, or a key and a second
\* argument.
ArgLists == {<<k>> : k \in Keys} \cup {<<k, "o">> : k \in Keys}

\* The calls the sources are drawn from: every function written as its
\* pattern expects it, and g8r_output written with its first argument only.
Calls ==
    {c \in [fn : {"g8r_output", "g8r_secret", "g8r_env", "g8r_get", "g8r_set",
                  "g8r_global", "g8r_const"},
            args : ArgLists] :
        Len(c.args) = Captures(c.fn) \/ c.fn = "g8r_output"}

RECURSIVE FlatFrom(_, _)
\* The g8r_* calls of a source in the order of the text, each with its duty.
FlatFrom(src, k) ==
    IF k > Len(NameOrder) THEN <<>>
    ELSE LET n == NameOrder[k]
         IN  (IF n \in DOMAIN src
              THEN [i \in DOMAIN src[n] |->
                       [duty |-> n, fn |-> src[n][i].fn, args |-> src[n][i].args]]
              ELSE <<>>) \o FlatFrom(src, k + 1)

\* Place of fn in a list of patterns, 0 when no pattern is for it.
PatternRank(patterns, fn) ==
    IF \E r \in DOMAIN patterns : patterns[r] = fn
    THEN CHOOSE r \in DOMAIN patterns : patterns[r] = fn
    ELSE 0

\* evaluator.rs:518-523, regex.captures_iter: the call is one of the matches
\* of a pattern of the list.
Matches(patterns, c) ==
    PatternRank(patterns, c.fn) # 0 /\ Len(c.args) = Captures(c.fn)

\* The numbering that follows the place in the text alone.
TokenId_ByPlace(flat, patterns, p) ==
    Cardinality({q \in DOMAIN flat : Matches(patterns, flat[q]) /\ q <= p})

\* instruction.rs:26-46, add_instruction, called once per match while the
\* patterns are gone through in order and the matches of a pattern in the
\* order of the text: the number of the token the call at place p gets.
TokenId(flat, patterns, p) ==
    LET r == PatternRank(patterns, flat[p].fn)
    IN  Cardinality({q \in DOMAIN flat :
                        LET rq == PatternRank(patterns, flat[q].fn)
                        IN  Matches(patterns, flat[q])
                                /\ (rq < r \/ (rq = r /\ q <= p))})

\* evaluator.rs:533-538 and 483-489: the target_path every instruction is
\* added with, the empty string.
EmptyPath == <<>>

\* evaluator.rs:249 and 395: format!("duties.{}", duty.name), as segments.
DutyPath(n) == <<"duties", n>>

\* str::starts_with.
StartsWith(path, prefix) ==
    Len(prefix) <= Len(path) /\ SubSeq(path, 1, Len(prefix)) = prefix

\* evaluator.rs:507-549, process_g8r_functions: the calls that match a
\* pattern become tokens, the instructions are collected in token order; the
\* args of an instruction are the groups its pattern captured
\* (evaluator.rs:525-528). A call no pattern matches is left in the text.
ProcessG8rFunctions(flat, patterns) ==
    LET matched == {p \in DOMAIN flat : Matches(patterns, flat[p])}
        at(id)  == CHOOSE p \in matched : TokenId(flat, patterns, p) = id
    IN  [tokens |-> [p \in DOMAIN flat |->
                        IF p \in matched THEN TokenId(flat, patterns, p) ELSE 0],
         instructions |->
             [id \in 1..Cardinality(matched) |->
                 [token |-> id, instruction_type |-> flat[at(id)].fn,
                  args |-> flat[at(id)].args, target_path |-> EmptyPath]]]

\* evaluator.rs:392-406 and 245-258: the instructions whose target_path
\* starts with the duty's path.
AttachInstructions(n, instructions) ==
    SelectSeq(instructions, LAMBDA inst : StartsWith(inst.target_path, DutyPath(n)))

\* The spec of duty n once the source is evaluated: one entry per call, a
\* token or the value the call was replaced by.
LoadedSpec(flat, tokens, n) ==
    LET idx == SelectSeq([q \in DOMAIN flat |-> q], LAMBDA q : flat[q].duty = n)
    IN  [k \in DOMAIN idx |->
            IF tokens[idx[k]] # 0 THEN [kind |-> "token", id |-> tokens[idx[k]]]
            ELSE [kind |-> "value", id |-> 0]]

\* kv/mod.rs:131-149 (resolve: constants, stack context, global store) and
\* evaluator.rs:444-480: the calls process_g8r_variable_functions returns
\* an Err for.
Unresolved(c) ==
    /\ Len(c.args) = Captures(c.fn)
    /\ \/ c.fn = "g8r_get" /\ c.args[1] \notin ConstantKeys \cup GlobalKeys
       \/ c.fn = "g8r_global" /\ c.args[1] \notin GlobalKeys
       \/ c.fn = "g8r_const" /\ c.args[1] \notin ConstantKeys
       \/ c.fn = "g8r_set"

\* evaluator.rs:444-473: the calls the rewriting replaces by a value.
Resolved(c) ==
    c.fn \in {"g8r_get", "g8r_global", "g8r_const"} /\ Len(c.args) = Captures(c.fn)

NotRewritten == [ok |-> FALSE, tokens |-> <<>>, instructions |-> <<>>]

\* evaluator.rs:412-505, process_g8r_variable_functions: g8r_get, g8r_global
\* and g8r_const are replaced by the serialized value, g8r_set is refused;
\* every other pattern (g8r_output, g8r_secret, g8r_env) takes the `_` arm
\* and becomes a token.
ProcessG8rVariableFunctions(flat) ==
    IF \E q \in DOMAIN flat : Unresolved(flat[q]) THEN NotRewritten
    ELSE LET p == ProcessG8rFunctions(flat, InstructionPatterns)
         IN  [ok |-> TRUE, tokens |-> p.tokens, instructions |-> p.instructions]

\* The Err of a load; rw is what the rewriting of the source returned.
LoadFailed(loader, rw) ==
    [loader |-> loader, ok |-> FALSE, duties |-> <<>>, rewritten |-> rw]

LoadedDuties(loader, src, flat, p) ==
    [loader |-> loader, ok |-> TRUE,
     duties |-> [n \in DOMAIN src |->
                    [spec |-> LoadedSpec(flat, p.tokens, n),
                     instructions |-> AttachInstructions(n, p.instructions)]],
     rewritten |-> [ok |-> TRUE, tokens |-> p.tokens, instructions |-> p.instructions]]

\* evaluator.rs:350-409, load_duties_with_instructions: a call no pattern
\* rewrote is an unbound identifier to `nickel export`.
LoadDutiesWithInstructions(src) ==
    LET flat == FlatFrom(src, 1)
        p    == ProcessG8rFunctions(flat, InstructionPatterns)
    IN  IF \E q \in DOMAIN flat : p.tokens[q] = 0
        THEN LoadFailed("instructions", [ok |-> TRUE, tokens |-> p.tokens,
                                         instructions |-> p.instructions])
        ELSE LoadedDuties("instructions", src, flat, p)

\* evaluator.rs:144-262, load_duties_with_variable_context: the Err of the
\* rewriting is passed on; a call the rewriting left in the text is an
\* unbound identifier to `nickel export`.
LoadDutiesWithVariableContext(src) ==
    LET flat == FlatFrom(src, 1)
        p    == ProcessG8rVariableFunctions(flat)
    IN  IF ~p.ok THEN LoadFailed("variable_context", NotRewritten)
        ELSE IF \E q \in DOMAIN flat : p.tokens[q] = 0 /\ ~Resolved(flat[q])
        THEN LoadFailed("variable_context", [ok |-> TRUE, tokens |-> p.tokens,
                                             instructions |-> p.instructions])
        ELSE LoadedDuties("variable_context", src, flat, p)

NotLoaded == [loader |-> "", ok |-> FALSE, duties |-> <<>>, rewritten |-> NotRewritten]

\* A call of load_duties_with_instructions on the source.
LoadWithInstructions ==
    /\ ldPc = "init"
    /\ ldOut' = LoadDutiesWithInstructions(ldSrc)
    /\ ldPc' = "loaded"
    /\ UNCHANGED <<notLoad, ldSrc>>

\* A call of load_duties_with_variable_context on the source.
LoadWithVariableContext ==
    /\ ldPc = "init"
    /\ ldOut' = LoadDutiesWithVariableContext(ldSrc)
    /\ ldPc' = "loaded"
    /\ UNCHANGED <<notLoad, ldSrc>>

\* ------------------------------------------------------------------------
\* controller/mod.rs
\* ------------------------------------------------------------------------

ErrEval == "Nickel evaluation failed"
ErrNotFound == "not found after re-evaluation"
ErrNoModule == "No module found supporting duty type"
ErrNoRoster == "No matching roster found for duty"
ErrTrait == "missing required trait"
ErrValidate == "validate failed"
ErrApply == "apply failed"
ErrRow == "no rows returned"
ErrDestroy == "Failed to destroy duty"

\* The registered modules: name, supported_duty_types, required_roster_traits.
Registry ==
    {[name |-> "s3-bucket", types |-> {"S3Bucket"},
      required |-> {"cloud-provider", "aws"}],
     [name |-> "route53-record", types |-> {"Route53Record"},
      required |-> {"cloud-provider", "aws"}]}

\* The rosters table; rank is the place of the name in ORDER BY name.
RosterRows ==
    {[name |-> "r1", rank |-> 1, roster_type |-> "aws-account",
      traits |-> {"cloud-provider", "aws"}],
     [name |-> "r2", rank |-> 2, roster_type |-> "gcp-project",
      traits |-> {"cloud-provider", "gcp"}]}

\* duty_type and roster_selector of the duties the inputs are drawn from.
\* A selector without traits has hasTraits = FALSE; without roster_type, "".
DutyAttrs ==
    {[duty_type |-> "S3Bucket",
      selector |-> [hasTraits |-> TRUE, traits |-> {"aws"}, roster_type |-> ""]],
     [duty_type |-> "Lambda",
      selector |-> [hasTraits |-> TRUE, traits |-> {"aws"}, roster_type |-> ""]],
     [duty_type |-> "S3Bucket",
      selector |-> [hasTraits |-> TRUE, traits |-> {"nonexistent"}, roster_type |-> ""]],
     [duty_type |-> "S3Bucket",
      selector |-> [hasTraits |-> FALSE, traits |-> {}, roster_type |-> "gcp-project"]]}

\* mod.rs:58-69: a module among those that support the type; the registry is
\* a HashMap, so which of several is met first differs from run to run.
SelectModule(dutyType) == {m \in Registry : dutyType \in m.types}

MatchRoster_All(selector, rows) == rows

\* mod.rs:35-56 with state.rs:66-86: the rows the query returns, filtered by
\* roster_type; the first row is returned. list_rosters orders by name,
\* find_rosters_by_traits states no order.
MatchRoster(selector, rows) ==
    LET byTraits == IF selector.hasTraits
                    THEN {r \in rows : selector.traits \subseteq r.traits}
                    ELSE rows
        kept == IF selector.roster_type # ""
                THEN {r \in byTraits : r.roster_type = selector.roster_type}
                ELSE byTraits
    IN  IF selector.hasTraits THEN kept
        ELSE {r \in kept : \A q \in kept : r.rank <= q.rank}

Foreign == "x"

NullStatus == [phase |-> "null", has |-> FALSE, out |-> <<>>]

\* The documents apply returns: phase, and outputs when has is TRUE.
ApplyDocs ==
    {[phase |-> "deployed", has |-> FALSE, out |-> <<>>],
     [phase |-> "pending", has |-> FALSE, out |-> <<>>]}
    \cup {[phase |-> "deployed", has |-> TRUE, out |-> v] : v \in Values}

NoDuty == [name |-> "", spec |-> SpecLit, module |-> "", required |-> {}, traits |-> {}]

Entry(op, d, res, err, doc) ==
    [op |-> op, duty |-> d.name, batch |-> ctlBatch, res |-> res, err |-> err,
     spec |-> d.spec, ctx |-> ctlCtx, doc |-> doc]

OnFailure_Continue(err) == [pc |-> "pick", err |-> ""]

\* The `?` and `return Err` of mod.rs:72-270: the first error ends the run.
OnFailure(err) == [pc |-> "failed", err |-> err]

Fail(err, entries) ==
    /\ ctlPc' = OnFailure(err).pc
    /\ ctlErr' = OnFailure(err).err
    /\ ctlLog' = ctlLog \o entries

\* The roster of RosterRows at place k of ORDER BY name.
RosterOfRank(k) == CHOOSE r \in RosterRows : r.rank = k

\* The rosters arrays of the configurations, in the order of the array: none,
\* or those of RosterRows.
ConfigRosters == {<<>>, [i \in 1..Cardinality(RosterRows) |-> RosterOfRank(i)]}

\* state.rs:28-53, create_roster: the row is inserted, or replaces the row
\* of that name.
CreateRoster(rows, roster) == {r \in rows : r.name # roster.name} \cup {roster}

\* state.rs:156-184, upsert_duty of a duty of the evaluated config: the row
\* takes the config's columns, status included, which the config leaves
\* unset.
UpsertDuty(rows, name, deps, spec) ==
    [d \in DOMAIN rows \cup {name} |->
        IF d = name THEN [deps |-> deps, spec |-> spec, status |-> NullStatus]
        ELSE rows[d]]

\* state.rs:135-154 with handlers.rs:119-136, create_duty: INSERT of a row
\* with status NULL; nothing is written when the name is taken.
CreateDuty(rows, name) ==
    IF name \in DOMAIN rows THEN rows
    ELSE [d \in DOMAIN rows \cup {name} |->
             IF d = name THEN [deps |-> <<>>, spec |-> SpecLit, status |-> NullStatus]
             ELSE rows[d]]

UpdateDutyStatus_All(rows, name, doc) ==
    [d \in DOMAIN rows |-> [rows[d] EXCEPT !.status = doc]]

\* state.rs:229-237, update_duty_status: UPDATE ... WHERE name.
UpdateDutyStatus(rows, name, doc) ==
    [d \in DOMAIN rows |-> IF d = name THEN [rows[d] EXCEPT !.status = doc] ELSE rows[d]]

PutOutput_Always(outs, name, doc) ==
    [d \in DOMAIN outs \cup {name} |-> IF d = name THEN doc.out ELSE outs[d]]

\* mod.rs:199-204 and 256-259: the outputs of a result that has the field.
PutOutput(outs, name, doc) ==
    IF doc.has
    THEN [d \in DOMAIN outs \cup {name} |-> IF d = name THEN doc.out ELSE outs[d]]
    ELSE outs

BatchDone_OneLeft(todo) == Cardinality(todo) <= 1

\* mod.rs:171 and 232: the inner loop ends when every name of the batch has
\* been taken.
BatchDone(todo) == todo = {}

\* mod.rs:127-130, load_rosters: the configuration is evaluated plainly and
\* its rosters array is read.
CtlLoadRosters ==
    /\ ctlMode = "nickel" /\ ctlPc = "init"
    /\ IF ~EvalDuties(cfg, PlainCtx).ok
       THEN Fail(ErrEval, <<>>) /\ UNCHANGED ctlQueue
       ELSE /\ ctlQueue' \in ConfigRosters
            /\ ctlPc' = "rosters"
            /\ UNCHANGED <<ctlErr, ctlLog>>
    /\ UNCHANGED <<notCtl, ctlMode, cfg, db, ctlPlan, ctlBatch, ctlTodo, ctlCur, ctlCtx,
                   ctlOuts, ctlDuty, ctlRosters, ctlPend, ctlOthers>>

\* mod.rs:132-136: create_roster of the next roster of the configuration.
CtlCreateRoster ==
    /\ ctlPc = "rosters" /\ ctlQueue # <<>>
    /\ ctlRosters' = CreateRoster(ctlRosters, Head(ctlQueue))
    /\ ctlQueue' = Tail(ctlQueue)
    /\ UNCHANGED <<notCtl, ctlMode, cfg, db, ctlPc, ctlPlan, ctlBatch, ctlTodo, ctlCur, ctlCtx,
                   ctlOuts, ctlDuty, ctlErr, ctlLog, ctlPend, ctlOthers>>

\* mod.rs:138, load_duties (plain), after the last roster.
CtlLoadDuties ==
    /\ ctlPc = "rosters" /\ ctlQueue = <<>>
    /\ IF ~EvalDuties(cfg, PlainCtx).ok
       THEN Fail(ErrEval, <<>>) /\ UNCHANGED ctlPend
       ELSE /\ ctlPend' = cfg.names
            /\ ctlPc' = "upsert"
            /\ UNCHANGED <<ctlErr, ctlLog>>
    /\ UNCHANGED <<notCtl, ctlMode, cfg, db, ctlPlan, ctlBatch, ctlTodo, ctlCur, ctlCtx,
                   ctlOuts, ctlDuty, ctlRosters, ctlQueue, ctlOthers>>

\* mod.rs:140-144: upsert_duty of the next duty of the configuration, in the
\* order the duties object is iterated in.
CtlUpsertDuty ==
    /\ ctlPc = "upsert"
    /\ \E d \in ctlPend :
         /\ db' = UpsertDuty(db, d, cfg.deps[d], EvalDuties(cfg, PlainCtx).duties[d])
         /\ ctlPend' = ctlPend \ {d}
    /\ UNCHANGED <<notCtl, ctlMode, cfg, ctlPc, ctlPlan, ctlBatch, ctlTodo, ctlCur, ctlCtx,
                   ctlOuts, ctlDuty, ctlErr, ctlLog, ctlRosters, ctlQueue, ctlOthers>>

\* mod.rs:146-153: list_duties after the last upsert, and the plan over every
\* duty the table holds then.
CtlListDuties ==
    /\ ctlPc = "upsert" /\ ctlPend = {}
    /\ LET plan == TopologicalSort(DOMAIN db, [d \in DOMAIN db |-> db[d].deps])
       IN  IF plan.ok
           THEN /\ ctlPlan' = plan.batches
                /\ ctlBatch' = 1
                /\ ctlPc' = "batch"
                /\ UNCHANGED <<ctlErr, ctlLog>>
           ELSE Fail(plan.err, <<>>) /\ UNCHANGED <<ctlPlan, ctlBatch>>
    /\ UNCHANGED <<notCtl, ctlMode, cfg, db, ctlTodo, ctlCur, ctlCtx, ctlOuts, ctlDuty,
                   ctlRosters, ctlQueue, ctlPend, ctlOthers>>

\* handlers.rs:119-136, create_duty: while the reconciliation runs, another
\* client of the API creates a duty.
CtlCreateDuty ==
    /\ ctlPc \notin {"idle", "done", "failed"}
    /\ Cardinality(ctlOthers) < MaxCreates
    /\ \E name \in (cfg.names \cup {Foreign}) \ DOMAIN db :
         /\ db' = CreateDuty(db, name)
         /\ ctlOthers' = ctlOthers \cup {name}
    /\ UNCHANGED <<notCtl, ctlMode, cfg, ctlPc, ctlPlan, ctlBatch, ctlTodo, ctlCur, ctlCtx,
                   ctlOuts, ctlDuty, ctlErr, ctlLog, ctlRosters, ctlQueue, ctlPend>>

\* mod.rs:216-224: the plan over the duties handed in.
CtlLoadDag ==
    /\ ctlMode = "dag" /\ ctlPc = "init"
    /\ LET plan == GetExecutionPlan(cfg.names, cfg.deps)
       IN  IF plan.ok
           THEN /\ ctlPlan' = plan.batches
                /\ ctlBatch' = 1
                /\ ctlPc' = "batch"
                /\ UNCHANGED <<ctlErr, ctlLog>>
           ELSE Fail(plan.err, <<>>) /\ UNCHANGED <<ctlPlan, ctlBatch>>
    /\ UNCHANGED <<notCtl, ctlMode, cfg, db, ctlTodo, ctlCur, ctlCtx, ctlOuts, ctlDuty,
                   ctlRosters, ctlQueue, ctlPend, ctlOthers>>

\* mod.rs:291, execution_plan.reverse(): the variant that keeps the order.
Reverse_Keep(seq) == seq

\* mod.rs:291, execution_plan.reverse().
Reverse(seq) == [k \in 1..Len(seq) |-> seq[Len(seq) + 1 - k]]

\* mod.rs:285-293, destroy_duties_dag: the apply plan over the duties handed
\* in, reversed.
CtlLoadDestroy ==
    /\ ctlMode = "destroy" /\ ctlPc = "init"
    /\ LET plan == GetExecutionPlan(cfg.names, cfg.deps)
       IN  IF plan.ok
           THEN /\ ctlPlan' = Reverse(plan.batches)
                /\ ctlBatch' = 1
                /\ ctlPc' = "batch"
                /\ UNCHANGED <<ctlErr, ctlLog>>
           ELSE Fail(plan.err, <<>>) /\ UNCHANGED <<ctlPlan, ctlBatch>>
    /\ UNCHANGED <<notCtl, ctlMode, cfg, db, ctlTodo, ctlCur, ctlCtx, ctlOuts, ctlDuty,
                   ctlRosters, ctlQueue, ctlPend, ctlOthers>>

\* mod.rs:295-299: the batch holds the duties as they were handed in.
CtlBatchDestroy ==
    /\ ctlMode = "destroy" /\ ctlPc = "batch" /\ ctlBatch <= Len(ctlPlan)
    /\ ctlTodo' = ctlPlan[ctlBatch]
    /\ ctlPc' = "pick"
    /\ UNCHANGED <<notCtl, ctlMode, cfg, db, ctlPlan, ctlBatch, ctlCur, ctlCtx, ctlOuts,
                   ctlDuty, ctlErr, ctlLog,
                   ctlRosters, ctlQueue, ctlPend, ctlOthers>>

\* mod.rs:305-313: destroy; an Err ends the run, the rows of the duties table
\* are left as they are either way.
CtlDestroy ==
    /\ ctlPc = "destroy"
    /\ \E ok \in BOOLEAN :
         IF ok
         THEN /\ ctlLog' = Append(ctlLog, Entry("destroy", ctlDuty, "ok", "", NullStatus))
              /\ ctlTodo' = ctlTodo \ {ctlDuty.name}
              /\ ctlPc' = "pick"
              /\ UNCHANGED ctlErr
         ELSE /\ Fail(ErrDestroy, <<Entry("destroy", ctlDuty, "err", ErrDestroy, NullStatus)>>)
              /\ UNCHANGED ctlTodo
    /\ UNCHANGED <<notCtl, ctlMode, cfg, db, ctlPlan, ctlBatch, ctlCur, ctlCtx, ctlOuts,
                   ctlDuty,
                   ctlRosters, ctlQueue, ctlPend, ctlOthers>>

\* mod.rs:72-75, reconcile_duty: the duty is the persisted row.
CtlLoadDuty ==
    /\ ctlMode = "duty" /\ ctlPc = "init"
    /\ IF cfg.target \in DOMAIN db
       THEN /\ ctlPlan' = <<{cfg.target}>>
            /\ ctlBatch' = 1
            /\ ctlTodo' = {cfg.target}
            /\ ctlCur' = [d \in {cfg.target} |-> db[d].spec]
            /\ ctlPc' = "pick"
            /\ UNCHANGED <<ctlErr, ctlLog>>
       ELSE Fail(ErrRow, <<>>) /\ UNCHANGED <<ctlPlan, ctlBatch, ctlTodo, ctlCur>>
    /\ UNCHANGED <<notCtl, ctlMode, cfg, db, ctlCtx, ctlOuts, ctlDuty,
                   ctlRosters, ctlQueue, ctlPend, ctlOthers>>

\* mod.rs:158-169: the context takes the outputs collected so far, and the
\* duties of the batch are evaluated: plainly for the first batch, under the
\* context for the later ones.
CtlBatchNickel ==
    /\ ctlMode = "nickel" /\ ctlPc = "batch" /\ ctlBatch <= Len(ctlPlan)
    /\ LET ctx == IF ctlBatch = 1 THEN PlainCtx ELSE RuntimeCtx(ctlOuts)
           ev  == EvalDuties(cfg, ctx)
       IN  IF ev.ok
           THEN /\ ctlCur' = ev.duties
                /\ ctlCtx' = ctx
                /\ ctlTodo' = ctlPlan[ctlBatch]
                /\ ctlPc' = "pick"
                /\ UNCHANGED <<ctlErr, ctlLog>>
           ELSE Fail(ErrEval, <<>>) /\ UNCHANGED <<ctlCur, ctlCtx, ctlTodo>>
    /\ UNCHANGED <<notCtl, ctlMode, cfg, db, ctlPlan, ctlBatch, ctlOuts, ctlDuty,
                   ctlRosters, ctlQueue, ctlPend, ctlOthers>>

\* mod.rs:226-232: the batch holds the duties as they were handed in.
CtlBatchDag ==
    /\ ctlMode = "dag" /\ ctlPc = "batch" /\ ctlBatch <= Len(ctlPlan)
    /\ ctlTodo' = ctlPlan[ctlBatch]
    /\ ctlPc' = "pick"
    /\ UNCHANGED <<notCtl, ctlMode, cfg, db, ctlPlan, ctlBatch, ctlCur, ctlCtx, ctlOuts,
                   ctlDuty, ctlErr, ctlLog,
                   ctlRosters, ctlQueue, ctlPend, ctlOthers>>

\* mod.rs:171-179, 232-236, 301-303, 77-80: the next duty of the batch, in any order;
\* its module and its roster.
CtlPick ==
    /\ ctlPc = "pick" /\ ~BatchDone(ctlTodo)
    /\ \E name \in ctlTodo, attr \in DutyAttrs :
         IF name \notin DOMAIN ctlCur
         THEN Fail(ErrNotFound, <<Entry("find", [name |-> name, spec |-> SpecLit],
                                        "err", ErrNotFound, NullStatus)>>)
              /\ UNCHANGED ctlDuty
         ELSE LET d == [name |-> name, spec |-> ctlCur[name]]
              IN  IF SelectModule(attr.duty_type) = {}
                  THEN Fail(ErrNoModule, <<Entry("select_module", d, "err", ErrNoModule,
                                                 NullStatus)>>)
                       /\ UNCHANGED ctlDuty
                  ELSE IF MatchRoster(attr.selector, ctlRosters) = {}
                  THEN Fail(ErrNoRoster, <<Entry("match_roster", d, "err", ErrNoRoster,
                                                 NullStatus)>>)
                       /\ UNCHANGED ctlDuty
                  ELSE \E m \in SelectModule(attr.duty_type),
                          r \in MatchRoster(attr.selector, ctlRosters) :
                          /\ ctlDuty' = [name |-> name, spec |-> ctlCur[name],
                                         module |-> m.name, required |-> m.required,
                                         traits |-> r.traits]
                          /\ ctlPc' = IF ctlMode = "destroy" THEN "destroy" ELSE "validate"
                          /\ UNCHANGED <<ctlErr, ctlLog>>
    /\ UNCHANGED <<notCtl, ctlMode, cfg, db, ctlPlan, ctlBatch, ctlTodo, ctlCur, ctlCtx, ctlOuts,
                   ctlRosters, ctlQueue, ctlPend, ctlOthers>>

\* mod.rs:181-192, 238-249, 83-95: validate, then the roster's traits against
\* the module's required ones.
CtlValidate ==
    /\ ctlPc = "validate"
    /\ \E ok \in BOOLEAN :
         IF ~ok
         THEN Fail(ErrValidate, <<Entry("validate", ctlDuty, "err", ErrValidate, NullStatus)>>)
         ELSE IF ~(ctlDuty.required \subseteq ctlDuty.traits)
         THEN Fail(ErrTrait, <<Entry("validate", ctlDuty, "ok", "", NullStatus),
                               Entry("verify_traits", ctlDuty, "err", ErrTrait, NullStatus)>>)
         ELSE /\ ctlLog' = Append(ctlLog, Entry("validate", ctlDuty, "ok", "", NullStatus))
              /\ ctlPc' = "apply"
              /\ UNCHANGED ctlErr
    /\ UNCHANGED <<notCtl, ctlMode, cfg, db, ctlPlan, ctlBatch, ctlTodo, ctlCur, ctlCtx, ctlOuts,
                   ctlDuty,
                   ctlRosters, ctlQueue, ctlPend, ctlOthers>>

\* mod.rs:194, 251, 98: apply returns a document or an Err.
CtlApply ==
    /\ ctlPc = "apply"
    /\ \/ Fail(ErrApply, <<Entry("apply", ctlDuty, "err", ErrApply, NullStatus)>>)
       \/ \E doc \in ApplyDocs :
            /\ ctlLog' = Append(ctlLog, Entry("apply", ctlDuty, "ok", "", doc))
            /\ ctlPc' = "status"
            /\ UNCHANGED ctlErr
    /\ UNCHANGED <<notCtl, ctlMode, cfg, db, ctlPlan, ctlBatch, ctlTodo, ctlCur, ctlCtx,
                   ctlOuts, ctlDuty, ctlRosters, ctlQueue, ctlPend, ctlOthers>>

\* The document the apply of the duty at hand returned.
ResultJson == ctlLog[Len(ctlLog)].doc

\* mod.rs:196, 253, 100: update_duty_status, the document becomes the status
\* of the duty's row.
CtlUpdateDutyStatus ==
    /\ ctlPc = "status"
    /\ db' = UpdateDutyStatus(db, ctlDuty.name, ResultJson)
    /\ ctlPc' = "record"
    /\ UNCHANGED <<notCtl, ctlMode, cfg, ctlPlan, ctlBatch, ctlTodo, ctlCur, ctlCtx,
                   ctlOuts, ctlDuty, ctlErr, ctlLog, ctlRosters, ctlQueue, ctlPend, ctlOthers>>

\* mod.rs:197-204, 254-261, 101: record_duty_execution reads the row for its
\* id, an Err when there is none; the outputs are kept.
CtlRecordDutyExecution ==
    /\ ctlPc = "record"
    /\ IF ctlDuty.name \in DOMAIN db
       THEN /\ ctlLog' = Append(ctlLog, Entry("persist", ctlDuty, "ok", "", ResultJson))
            /\ ctlOuts' = IF ctlMode = "duty" THEN ctlOuts
                          ELSE PutOutput(ctlOuts, ctlDuty.name, ResultJson)
            /\ ctlTodo' = ctlTodo \ {ctlDuty.name}
            /\ ctlPc' = "pick"
            /\ UNCHANGED ctlErr
       ELSE /\ Fail(ErrRow, <<Entry("record_execution", ctlDuty, "err", ErrRow, ResultJson)>>)
            /\ UNCHANGED <<ctlTodo, ctlOuts>>
    /\ UNCHANGED <<notCtl, ctlMode, cfg, db, ctlPlan, ctlBatch, ctlCur, ctlCtx, ctlDuty,
                   ctlRosters, ctlQueue, ctlPend, ctlOthers>>

\* mod.rs:205-209, 262-266: the batch is complete, the next one begins.
CtlBatchEnd ==
    /\ ctlPc = "pick" /\ BatchDone(ctlTodo)
    /\ ctlBatch' = ctlBatch + 1
    /\ ctlPc' = "batch"
    /\ UNCHANGED <<notCtl, ctlMode, cfg, db, ctlPlan, ctlTodo, ctlCur, ctlCtx, ctlOuts, ctlDuty,
                   ctlErr, ctlLog,
                   ctlRosters, ctlQueue, ctlPend, ctlOthers>>

\* mod.rs:211-212, 268-269, 103-104: Ok(()).
CtlFinish ==
    /\ ctlPc = "batch" /\ ctlBatch > Len(ctlPlan)
    /\ ctlPc' = "done"
    /\ UNCHANGED <<notCtl, ctlMode, cfg, db, ctlPlan, ctlBatch, ctlTodo, ctlCur, ctlCtx, ctlOuts,
                   ctlDuty, ctlErr, ctlLog,
                   ctlRosters, ctlQueue, ctlPend, ctlOthers>>

\* ------------------------------------------------------------------------
\* stack/manager.rs, stack/git.rs, db/state.rs (stacks)
\* ------------------------------------------------------------------------

\* last_sync_version = None, read as "" by reconcile_once.
NoVersion == ""

\* The stacks table's fixed columns: stack 1 has no periodic reconciliation
\* and a source type the manager does not know, stack 2 is a git stack
\* reconciled every 60 seconds.
ReconcileInterval == [s \in StackIds |-> IF s = 2 THEN 60 ELSE 0]
SourceType == [s \in StackIds |-> IF s = 2 THEN "git" ELSE "svn"]

CreateSource(s) == SourceType[s] = "git"

\* The ids the rows of the stacks table can carry: those of the rows it
\* starts with and those create_stack gives out.
RowIds == 1..(Cardinality(StackIds) + MaxStackCreates)

\* The place of a stack whose row was deleted from the table.
NoStack == [id |-> 0, status |-> "deleted", last_sync_version |-> NoVersion]

\* The names of the stacks that have a row.
StackRows(rows) == {s \in StackIds : rows[s] # NoStack}

\* list_stacks: the rows, newest first.
RECURSIVE ListStacks(_, _)
ListStacks(rows, names) ==
    IF names = {} THEN <<>>
    ELSE LET s == CHOOSE x \in names : \A y \in names : rows[y].id <= rows[x].id
         IN <<[name |-> s, id |-> rows[s].id,
               last_sync_version |-> rows[s].last_sync_version]>>
            \o ListStacks(rows, names \ {s})

\* state.rs:324-343, INSERT INTO stacks ... RETURNING *: the row gets the
\* next id of the serial, status "pending" and no last_sync_version
\* (handlers.rs:215-228).
CreateStack(rows, s, id) ==
    [rows EXCEPT ![s] = [id |-> id, status |-> "pending", last_sync_version |-> NoVersion]]

\* state.rs:383-393, UPDATE stacks SET status WHERE name: no row, no change.
UpdateStackStatus(row, status) ==
    IF row = NoStack THEN row ELSE [row EXCEPT !.status = status]

\* state.rs:366-381, UPDATE stacks SET last_sync_version, status WHERE name.
UpdateStackSync(row, version, status) ==
    IF row = NoStack THEN row
    ELSE [row EXCEPT !.last_sync_version = version, !.status = status]

\* state.rs:395-402, DELETE FROM stacks WHERE name.
DeleteStack(rows, s) == [rows EXCEPT ![s] = NoStack]

\* The outcomes of Controller::reconcile_from_nickel_with_variables.
ReconcileOutcomes == {"ok", "err"}

\* A task runs with its copy of the stack row: the name it writes the status
\* under, the id and the last_sync_version the row had when it was read.
NewTask(kind, s, row) ==
    [kind |-> kind, stack |-> s, id |-> row.id, last |-> row.last_sync_version,
     pc |-> "init", version |-> NoVersion, result |-> "none", synced |-> {}]

Running(t) == t.pc \notin {"returned", "aborted"}

\* A task that ended: its locals are gone; result tells how a sync call came
\* to return ("init_failed", "fetch_failed", "no_updates", or the controller's
\* "ok" or "err").
Ended(t, pc, result) ==
    [t EXCEPT !.pc = pc, !.last = NoVersion, !.version = NoVersion,
              !.result = result, !.synced = {}]

\* GitSource::get_version: the commit HEAD of the working copy points at.
GetVersion(s) == repoHead[s]

\* reconcile_once, the comparison: the variant that finds every version new.
SameVersion_Never(current, last) == FALSE

\* reconcile_once, the comparison of the source's version with the cursor.
SameVersion(current, last) == current = last

\* reconcile_once returned: the loop sleeps and goes round again, sync_stack
\* returns the result to its caller.
Returned(t, result) ==
    IF t.kind = "loop"
    THEN [t EXCEPT !.pc = "wait", !.version = NoVersion, !.result = "none"]
    ELSE Ended(t, "returned", result)

\* create_source, init or reconcile_once returned an Err, from the source
\* or from a write of the stacks table that failed: the loop goes on to
\* record "error" (manager.rs:141-157, 164-168), sync_stack and
\* destroy_stack pass the error on to their caller.
Errored(t, result) ==
    IF t.kind = "loop"
    THEN [t EXCEPT !.pc = "error", !.version = NoVersion, !.result = result]
    ELSE Ended(t, "returned", result)

\* JoinHandle::abort: the task stops at the await it is suspended at.
Abort(ts, hs) ==
    [i \in DOMAIN ts |->
        IF i \in hs /\ Running(ts[i])
        THEN Ended(ts[i], "aborted", "none")
        ELSE ts[i]]

\* spawn_reconciliation_task, up to tokio::spawn: the task runs with a copy
\* of the stack row it was given. pend are the handles waiting as it is
\* called, rest the rows its caller goes on with once the handle is in.
Spawn(s, row, rest, pend) ==
    /\ Len(tasks) < MaxTasks
    /\ tasks' = Append(tasks, NewTask("loop", s, row))
    /\ inserts' = pend \cup {[id |-> row.id, task |-> Len(tasks) + 1, rest |-> rest]}

\* reconcile_once, the match on the controller's result: the variant that
\* advances the cursor whatever the result was.
OnReconciled_Always(row, result, version) ==
    UpdateStackSync(row, version, IF result = "ok" THEN "synced" ELSE row.status)

\* reconcile_once, the match on the controller's result.
OnReconciled(row, result, version) ==
    IF result = "ok" THEN UpdateStackSync(row, version, "synced") ELSE row

\* What the caller of reconcile_once does with an Err: the loop records
\* "error", sync_stack only passes the error on.
OnError(row, kind) ==
    IF kind = "loop" THEN UpdateStackStatus(row, "error") ELSE row

\* start, one stretch of its loop over the listed rows: the rows without a
\* positive interval are passed over, the first with one gets its task, and
\* the loop goes on once that task's handle is in the map.
RECURSIVE SkipDisabled(_)
SkipDisabled(rows) ==
    IF rows # <<>> /\ ReconcileInterval[Head(rows).name] <= 0
    THEN SkipDisabled(Tail(rows))
    ELSE rows

StartTurn(rows, pend) ==
    LET todo == SkipDisabled(rows) IN
    IF todo = <<>>
    THEN /\ tasks' = tasks
         /\ inserts' = pend
    ELSE Spawn(Head(todo).name, Head(todo), Tail(todo), pend)

\* start: list_stacks and the loop up to the first task spawned.
StackStart ==
    /\ Len(tasks) < MaxTasks
    /\ StartTurn(ListStacks(stacks, StackRows(stacks)), inserts)
    /\ UNCHANGED <<notStack, stacks, stackSeq, remote, repoHead, handles>>

\* state.rs:324-343, StateManager::create_stack, which the create_stack
\* handler calls before register_stack (handlers.rs:230-234). The name is
\* unique in the table: the INSERT of a name that has a row is an Err and
\* changes nothing.
StackCreate ==
    \E s \in StackIds :
        /\ stacks[s] = NoStack
        /\ stackSeq \in RowIds
        /\ stacks' = CreateStack(stacks, s, stackSeq)
        /\ stackSeq' = stackSeq + 1
        /\ UNCHANGED <<notStack, remote, repoHead, tasks, handles, inserts>>

\* register_stack, with the row the caller read.
StackRegister ==
    \E s \in StackRows(stacks) :
        /\ IF ReconcileInterval[s] > 0
           THEN Spawn(s, stacks[s], <<>>, inserts)
           ELSE /\ Len(tasks) < MaxTasks
                /\ UNCHANGED <<tasks, inserts>>
        /\ UNCHANGED <<notStack, stacks, stackSeq, remote, repoHead, handles>>

\* spawn_reconciliation_task, the insert into the task map: the handle the
\* map held for the id is dropped, which leaves its task running. start
\* then goes on with its loop.
StackInsert ==
    \E p \in inserts :
        /\ handles' = [handles EXCEPT ![p.id] = p.task]
        /\ StartTurn(p.rest, inserts \ {p})
        /\ UNCHANGED <<notStack, stacks, stackSeq, remote, repoHead>>

\* unregister_stack.
StackUnregister ==
    \E r \in RowIds :
        /\ handles[r] # 0
        /\ tasks' = Abort(tasks, {handles[r]})
        /\ handles' = [handles EXCEPT ![r] = 0]
        /\ UNCHANGED <<notStack, stacks, stackSeq, remote, repoHead, inserts>>

\* stop.
StackStop ==
    /\ \E r \in RowIds : handles[r] # 0
    /\ tasks' = Abort(tasks, {handles[r] : r \in RowIds})
    /\ handles' = [r \in RowIds |-> 0]
    /\ UNCHANGED <<notStack, stacks, stackSeq, remote, repoHead, inserts>>

\* sync_stack: get_stack_by_name, which is an Err for a stack without a row.
StackSync ==
    \E s \in StackRows(stacks) :
        /\ Len(tasks) < MaxTasks
        /\ tasks' = Append(tasks, NewTask("sync", s, stacks[s]))
        /\ UNCHANGED <<notStack, stacks, stackSeq, remote, repoHead, handles, inserts>>

\* manager.rs:308-326, destroy_stack: get_stack_by_name; the call goes on
\* with create_source and init as sync_stack does, and then to the
\* controller's destroy_from_nickel.
StackDestroy ==
    \E s \in StackRows(stacks) :
        /\ Len(tasks) < MaxTasks
        /\ tasks' = Append(tasks, NewTask("destroy", s, stacks[s]))
        /\ UNCHANGED <<notStack, stacks, stackSeq, remote, repoHead, handles, inserts>>

\* state.rs:395-402, StateManager::delete_stack, which the delete_stack
\* handler calls once unregister_stack has returned (handlers.rs:367-371).
StackDelete ==
    \E s \in StackRows(stacks) :
        /\ stacks' = DeleteStack(stacks, s)
        /\ UNCHANGED <<notStack, stackSeq, remote, repoHead, tasks, handles, inserts>>

\* A push to the remote branch of a git stack.
RemotePush ==
    \E s \in StackIds :
        /\ CreateSource(s)
        /\ remote[s] = "v1"
        /\ remote' = [remote EXCEPT ![s] = "v2"]
        /\ UNCHANGED <<notStack, stacks, stackSeq, repoHead, tasks, handles, inserts>>

\* reconciliation_loop, sync_stack and destroy_stack: create_source and
\* init. init clones, or fetches and resets the working copy to FETCH_HEAD.
TaskInit ==
    \E i \in DOMAIN tasks :
        LET t == tasks[i] IN
        /\ t.pc = "init"
        /\ \E ok \in BOOLEAN :
             IF CreateSource(t.stack) /\ ok
             THEN /\ repoHead' = [repoHead EXCEPT ![t.stack] = remote[t.stack]]
                  /\ tasks' = [tasks EXCEPT ![i].pc =
                                  IF t.kind = "destroy" THEN "destroy" ELSE "wait"]
             ELSE /\ tasks' = [tasks EXCEPT ![i] = Errored(t, "init_failed")]
                  /\ UNCHANGED repoHead
        /\ UNCHANGED <<notStack, stacks, stackSeq, remote, handles, inserts>>

\* manager.rs:198, reconcile_once: the loop's sleep and source.fetch, which
\* moves FETCH_HEAD and leaves HEAD where init put it.
TaskFetch ==
    \E i \in DOMAIN tasks :
        LET t == tasks[i] IN
        /\ t.pc = "wait"
        /\ \E ok \in BOOLEAN :
             tasks' = [tasks EXCEPT ![i] =
                          IF ok THEN [t EXCEPT !.pc = "version"]
                          ELSE Errored(t, "fetch_failed")]
        /\ UNCHANGED <<notStack, stacks, stackSeq, remote, repoHead, handles, inserts>>

\* manager.rs:205-217, reconcile_once: source.get_version and the comparison
\* with the cursor of the task's copy of the row.
TaskGetVersion ==
    \E i \in DOMAIN tasks :
        LET t == tasks[i] IN
        /\ t.pc = "version"
        /\ \E ok \in BOOLEAN :
             tasks' = [tasks EXCEPT ![i] =
                          IF ~ok THEN Errored(t, "fetch_failed")
                          ELSE IF SameVersion(GetVersion(t.stack), t.last)
                          THEN Returned(t, "no_updates")
                          ELSE [t EXCEPT !.pc = "syncing",
                                         !.version = GetVersion(t.stack),
                                         !.result = "none"]]
        /\ UNCHANGED <<notStack, stacks, stackSeq, remote, repoHead, handles, inserts>>

\* manager.rs:226-227, reconcile_once: update_stack_status(name, "syncing"),
\* whose Err the `?` passes on before the controller is called.
TaskSyncing ==
    \E i \in DOMAIN tasks :
        LET t == tasks[i] IN
        /\ t.pc = "syncing"
        /\ \E written \in BOOLEAN :
             IF written
             THEN /\ stacks' = [stacks EXCEPT ![t.stack] = UpdateStackStatus(@, "syncing")]
                  /\ tasks' = [tasks EXCEPT ![i].pc = "reconcile"]
             ELSE /\ tasks' = [tasks EXCEPT ![i] = Errored(t, "write_failed")]
                  /\ UNCHANGED stacks
        /\ UNCHANGED <<notStack, stackSeq, remote, repoHead, handles, inserts>>

\* reconcile_once: get_config_path and the controller's reconciliation.
TaskReconcile ==
    \E i \in DOMAIN tasks :
        /\ tasks[i].pc = "reconcile"
        /\ \E r \in ReconcileOutcomes :
             tasks' = [tasks EXCEPT ![i].pc = "result", ![i].result = r]
        /\ UNCHANGED <<notStack, stacks, stackSeq, remote, repoHead, handles, inserts>>

\* manager.rs:318-325, destroy_stack: get_config_path and the controller's
\* destroy_from_nickel, whose result is passed on; no row is written.
TaskDestroy ==
    \E i \in DOMAIN tasks :
        /\ tasks[i].pc = "destroy"
        /\ \E r \in ReconcileOutcomes :
             tasks' = [tasks EXCEPT ![i] = Ended(tasks[i], "returned", r)]
        /\ UNCHANGED <<notStack, stacks, stackSeq, remote, repoHead, handles, inserts>>

\* reconcile_once after the controller returned (manager.rs:238-256), and
\* the caller's handling of an Err. On Ok update_stack_sync, whose Err the
\* `?` of manager.rs:239-240 passes on with the row as it was. On Err the
\* loop's update_stack_status "error", whose own Err is logged and dropped,
\* and no write by sync_stack.
TaskResult ==
    \E i \in DOMAIN tasks :
        LET t == tasks[i]
            row == OnReconciled(stacks[t.stack], t.result, t.version)
        IN
        /\ t.pc = "result"
        /\ \E written \in BOOLEAN :
             IF t.result = "ok"
             THEN IF written
                  THEN /\ stacks' = [stacks EXCEPT ![t.stack] = row]
                       /\ tasks' = [tasks EXCEPT ![i] =
                                       Returned([t EXCEPT !.synced = @ \cup {t.version}],
                                                t.result)]
                  ELSE /\ tasks' = [tasks EXCEPT ![i] = Errored(t, "write_failed")]
                       /\ UNCHANGED stacks
             ELSE /\ stacks' = [stacks EXCEPT ![t.stack] =
                                   IF written THEN OnError(row, t.kind) ELSE row]
                  /\ tasks' = [tasks EXCEPT ![i] = Returned(t, t.result)]
        /\ UNCHANGED <<notStack, stackSeq, remote, repoHead, handles, inserts>>

\* reconciliation_loop after an Err of create_source, init or reconcile_once:
\* update_stack_status "error", whose own Err is logged and dropped; the
\* task then returns when it was create_source or init that failed
\* (manager.rs:141-157), and sleeps for another cycle otherwise
\* (manager.rs:164-171).
TaskError ==
    \E i \in DOMAIN tasks :
        LET t == tasks[i] IN
        /\ t.pc = "error"
        /\ \E written \in BOOLEAN :
             stacks' = [stacks EXCEPT ![t.stack] =
                          IF written THEN OnError(@, t.kind) ELSE @]
        /\ tasks' = [tasks EXCEPT ![i] =
                        IF t.result = "init_failed"
                        THEN Ended(t, "returned", "init_failed")
                        ELSE Returned(t, t.result)]
        /\ UNCHANGED <<notStack, stackSeq, remote, repoHead, handles, inserts>>

\* ------------------------------------------------------------------------
\* modules/aws: apply and destroy of one duty against the provider account
\* ------------------------------------------------------------------------

ModuleKinds == {"s3-bucket", "iam-user", "acm-certificate"}

\* A duty whose status column is NULL (Duty.status = None). In a status
\* document arn and access_key_id are the ids the provider handed out, 0 for
\* an output that is absent or derived from the duty's name.
StatusNone == [phase |-> "none", arn |-> 0, access_key_id |-> 0]

Deployed == [phase |-> "deployed", arn |-> 0, access_key_id |-> 0]

\* What exists in the provider account.
Resources(e) == [bucket |-> e.bucket, user |-> e.user, keys |-> e.keys, certs |-> e.certs]

\* The callers whose controller calls can overlap.
ModCallers == {1, 2}

\* A controller call that returned; alone tells that no other call was
\* running while it ran.
Called(op, res, doc, alone) == [op |-> op, res |-> res, doc |-> doc, alone |-> alone]

NoCall ==
    [op |-> "none", pc |-> "idle", status |-> StatusNone, found |-> FALSE,
     doc |-> StatusNone, listed |-> {}, alone |-> TRUE,
     prev |-> Called("none", "ok", StatusNone, TRUE),
     before |-> [bucket |-> FALSE, user |-> FALSE, keys |-> {}, certs |-> {}]]

\* What a module call has done when it next awaits or returns: where it
\* stands ("ok" and "err" for a return), what its existence check found, the
\* document it is building, the access keys it listed and has yet to
\* delete, and the provider account.
Step(pc, found, doc, e) ==
    [pc |-> pc, found |-> found, doc |-> doc, listed |-> {}, env |-> e]

ModFailed(c, e) == Step("err", c.found, StatusNone, e)

\* s3_bucket.rs:62-181, for a spec without website_config, versioning and
\* public_access: bucket_exists; create_bucket when it said no. The provider
\* answers the create of a bucket the account owns already with Ok or with
\* an error, by region (again).
S3Apply(c, e, again) ==
    IF c.pc = "exists"
    THEN IF e.bucket THEN Step("ok", TRUE, Deployed, e)
         ELSE Step("create", FALSE, c.doc, e)
    ELSE IF e.bucket /\ ~again THEN ModFailed(c, e)
         ELSE Step("ok", c.found, Deployed, [e EXCEPT !.bucket = TRUE])

\* iam_user.rs:61-121: user_exists; create_user when it said no; with
\* create_access_key the provider is asked for an access key on every call.
IamApply(createKey, c, e) ==
    IF c.pc = "exists"
    THEN IF ~e.user THEN Step("create", FALSE, c.doc, e)
         ELSE IF createKey THEN Step("key", TRUE, c.doc, e)
         ELSE Step("ok", TRUE, Deployed, e)
    ELSE IF c.pc = "create"
    THEN IF e.user THEN ModFailed(c, e)
         ELSE IF createKey THEN Step("key", c.found, c.doc, [e EXCEPT !.user = TRUE])
         ELSE Step("ok", c.found, Deployed, [e EXCEPT !.user = TRUE])
    ELSE IF ~e.user THEN ModFailed(c, e)
         ELSE Step("ok", c.found, [Deployed EXCEPT !.access_key_id = e.next],
                   [e EXCEPT !.keys = @ \cup {e.next}, !.next = @ + 1])

\* acm_certificate.rs:74-76, existing_arn: status.outputs.arn of the duty
\* the module was handed.
ExistingArn(c) == c.status.arn # 0

\* acm_certificate.rs:57-135: without an existing arn a certificate is
\* requested; the validation records of the certificate are fetched; with
\* an existing arn the module waits for the validation.
AcmApply(issued, c, e) ==
    LET arn == IF ExistingArn(c) THEN c.status.arn ELSE c.doc.arn IN
    IF c.pc = "request"
    THEN Step("records", FALSE, [c.doc EXCEPT !.arn = e.next],
              [e EXCEPT !.certs = @ \cup {e.next}, !.next = @ + 1])
    ELSE IF c.pc = "records"
    THEN IF arn \notin e.certs THEN ModFailed(c, e)
         ELSE IF ExistingArn(c) THEN Step("wait", TRUE, c.doc, e)
         ELSE Step("ok", FALSE,
                   [phase |-> "pending_validation", arn |-> arn, access_key_id |-> 0], e)
    ELSE Step("ok", TRUE,
              [phase |-> IF arn \in e.certs /\ issued THEN "deployed"
                         ELSE "pending_validation",
               arn |-> arn, access_key_id |-> 0], e)

\* modules/mod.rs:35-45, Module::apply of the module selected, from one
\* await to the next.
Apply(kind, opt, c, e, again) ==
    IF kind = "s3-bucket" THEN S3Apply(c, e, again)
    ELSE IF kind = "iam-user" THEN IamApply(opt, c, e)
    ELSE AcmApply(opt, c, e)

\* Where apply first awaits the provider.
ApplyEntry(kind, status) ==
    IF kind # "acm-certificate" THEN "exists"
    ELSE IF status.arn # 0 THEN "records" ELSE "request"

\* s3_bucket.rs:183-206: bucket_exists; when it said yes empty_bucket, which
\* lists the objects of the bucket, and delete_bucket, both of which the
\* provider refuses for a bucket that is gone.
S3Destroy(c, e) ==
    IF c.pc = "exists"
    THEN IF e.bucket THEN Step("empty", TRUE, c.doc, e)
         ELSE Step("ok", FALSE, c.doc, e)
    ELSE IF ~e.bucket THEN ModFailed(c, e)
    ELSE IF c.pc = "empty" THEN Step("delete", c.found, c.doc, e)
         ELSE Step("ok", c.found, c.doc, [e EXCEPT !.bucket = FALSE])

\* iam_user.rs:123-144 with clients/iam.rs:76-132: user_exists; delete_user
\* lists the user's access keys and deletes the keys listed one by one,
\* lists the user's policies, then deletes the user. The provider refuses
\* each of these for a user that is gone, the delete of a key that is gone,
\* and the delete of a user that has an access key.
IamDestroy(c, e) ==
    LET key == CHOOSE k \in c.listed : \A x \in c.listed : k <= x
        rest == c.listed \ {key}
    IN
    IF c.pc = "exists"
    THEN IF e.user THEN Step("list_access_keys", TRUE, c.doc, e)
         ELSE Step("ok", FALSE, c.doc, e)
    ELSE IF ~e.user THEN ModFailed(c, e)
    ELSE IF c.pc = "list_access_keys"
    THEN [Step(IF e.keys = {} THEN "list_user_policies" ELSE "delete_access_key",
               c.found, c.doc, e) EXCEPT !.listed = e.keys]
    ELSE IF c.pc = "delete_access_key"
    THEN IF key \notin e.keys THEN ModFailed(c, e)
         ELSE [Step(IF rest = {} THEN "list_user_policies" ELSE "delete_access_key",
                    c.found, c.doc, [e EXCEPT !.keys = @ \ {key}])
                  EXCEPT !.listed = rest]
    ELSE IF c.pc = "list_user_policies" THEN Step("delete", c.found, c.doc, e)
    ELSE IF e.keys # {} THEN ModFailed(c, e)
         ELSE Step("ok", c.found, c.doc, [e EXCEPT !.user = FALSE])

\* acm_certificate.rs:137-159: the certificate is found through
\* status.outputs.arn; without it destroy returns Err.
AcmDestroy(c, e) ==
    IF c.pc = "exists"
    THEN IF ~ExistingArn(c) THEN ModFailed(c, e)
         ELSE IF c.status.arn \in e.certs THEN Step("delete", TRUE, c.doc, e)
         ELSE Step("ok", FALSE, c.doc, e)
    ELSE IF c.status.arn \notin e.certs THEN ModFailed(c, e)
         ELSE Step("ok", c.found, c.doc, [e EXCEPT !.certs = @ \ {c.status.arn}])

\* modules/mod.rs:35-45, Module::destroy of the module selected, from one
\* await to the next.
Destroy(kind, c, e) ==
    IF kind = "s3-bucket" THEN S3Destroy(c, e)
    ELSE IF kind = "iam-user" THEN IamDestroy(c, e)
    ELSE AcmDestroy(c, e)

ApplyOps == {"reconcile_from_nickel", "reconcile_duty"}
DestroyOps == {"destroy_from_nickel", "destroy_duty"}

\* Caller c's call begins: it has the duty it will hand to its module;
\* reconcile_from_nickel goes on to list_duties. The calls that are running
\* are no longer alone.
Begin(c, op, status) ==
    /\ modCalls[c].pc = "idle"
    /\ modOps < MaxOps
    /\ modOps' = modOps + 1
    /\ modCalls' =
          [x \in ModCallers |->
              IF x = c
              THEN [op |-> op,
                    pc |-> IF op = "reconcile_from_nickel" THEN "list"
                           ELSE IF op \in ApplyOps THEN ApplyEntry(modKind, status)
                           ELSE "exists",
                    status |-> status, found |-> FALSE, doc |-> StatusNone,
                    listed |-> {},
                    alone |-> \A y \in ModCallers \ {c} : modCalls[y].pc = "idle",
                    prev |-> modLast, before |-> Resources(env)]
              ELSE IF modCalls[x].pc = "idle" THEN modCalls[x]
              ELSE [modCalls[x] EXCEPT !.alone = FALSE]]

\* Caller c's call returns.
Return(c, res, doc) ==
    /\ modLast' = Called(modCalls[c].op, res, doc, modCalls[c].alone)
    /\ modCalls' = [modCalls EXCEPT ![c] = NoCall]

\* A call that returns an Err before its module is called.
Refused(c, op) ==
    /\ modCalls[c].pc = "idle"
    /\ modOps < MaxOps
    /\ modOps' = modOps + 1
    /\ modLast' = Called(op, "err", StatusNone,
                         \A y \in ModCallers \ {c} : modCalls[y].pc = "idle")
    /\ UNCHANGED modCalls

\* state.rs:135-154, create_duty (handlers.rs:133): INSERT of a row with
\* status NULL, an Err when the name is taken (upsert_duty's ON CONFLICT
\* (name) rests on the constraint). The calls that are running are no longer
\* alone.
ModCreateDuty ==
    /\ modOps < MaxOps
    /\ modOps' = modOps + 1
    /\ modRow' = IF modRow.exists THEN modRow
                 ELSE [exists |-> TRUE, status |-> StatusNone]
    /\ modLast' = Called("create_duty", IF modRow.exists THEN "err" ELSE "ok",
                         StatusNone,
                         \A c \in ModCallers : modCalls[c].pc = "idle")
    /\ modCalls' = [c \in ModCallers |->
                       IF modCalls[c].pc = "idle" \/ modRow.exists THEN modCalls[c]
                       ELSE [modCalls[c] EXCEPT !.alone = FALSE]]
    /\ UNCHANGED <<notMod, modKind, modOpt, env>>

\* mod.rs:124-144 for a configuration of one duty: upsert_duty writes the
\* config's columns, status NULL among them; the module will be handed the
\* evaluated duty.
ModReconcileFromNickel ==
    /\ \E c \in ModCallers : Begin(c, "reconcile_from_nickel", StatusNone)
    /\ modRow' = [exists |-> TRUE, status |-> StatusNone]
    /\ UNCHANGED <<notMod, modKind, modOpt, env, modLast>>

\* mod.rs:146-171, reconcile_from_nickel: list_duties, whose rows make the
\* execution plan. With the duty's row gone the plan is empty and the call
\* returns Ok without a call of the module.
ModListDuties ==
    /\ \E c \in ModCallers :
         /\ modCalls[c].pc = "list"
         /\ IF modRow.exists
            THEN /\ modCalls' = [modCalls EXCEPT
                                    ![c].pc = ApplyEntry(modKind, modCalls[c].status)]
                 /\ UNCHANGED modLast
            ELSE Return(c, "ok", StatusNone)
    /\ UNCHANGED <<notMod, modKind, modOpt, env, modRow, modOps>>

\* mod.rs:72-83, reconcile_duty: get_duty_by_name; the module will be handed
\* the row.
ModReconcileDuty ==
    /\ \E c \in ModCallers :
         IF modRow.exists
         THEN Begin(c, "reconcile_duty", modRow.status) /\ UNCHANGED modLast
         ELSE Refused(c, "reconcile_duty")
    /\ UNCHANGED <<notMod, modKind, modOpt, env, modRow>>

\* mod.rs:273-306, destroy_from_nickel: the module will be handed the duty
\* as load_duties evaluated it; the duties table is not read or written.
ModDestroyFromNickel ==
    /\ \E c \in ModCallers : Begin(c, "destroy_from_nickel", StatusNone)
    /\ UNCHANGED <<notMod, modKind, modOpt, env, modRow, modLast>>

\* mod.rs:108-113, destroy_duty: get_duty_by_name; the module will be handed
\* the row.
ModDestroyDuty ==
    /\ \E c \in ModCallers :
         IF modRow.exists
         THEN Begin(c, "destroy_duty", modRow.status) /\ UNCHANGED modLast
         ELSE Refused(c, "destroy_duty")
    /\ UNCHANGED <<notMod, modKind, modOpt, env, modRow>>

ModulePcs ==
    {"exists", "create", "key", "request", "records", "wait",
     "empty", "list_access_keys", "delete_access_key", "list_user_policies", "delete"}

\* What the controller goes on to when its module returned: an Err is
\* passed on; after an apply the status is written, after the destroy of
\* destroy_duty the row is deleted, and destroy_from_nickel returns.
AfterModule(c, r) ==
    LET call == [modCalls[c] EXCEPT !.found = r.found, !.doc = r.doc,
                                    !.listed = r.listed] IN
    IF r.pc \notin {"ok", "err"}
    THEN modCalls' = [modCalls EXCEPT ![c] = [call EXCEPT !.pc = r.pc]] /\ UNCHANGED modLast
    ELSE IF r.pc = "err" THEN Return(c, "err", StatusNone)
    ELSE IF call.op \in ApplyOps
    THEN modCalls' = [modCalls EXCEPT ![c] = [call EXCEPT !.pc = "status"]]
            /\ UNCHANGED modLast
    ELSE IF call.op = "destroy_duty"
    THEN modCalls' = [modCalls EXCEPT ![c] = [call EXCEPT !.pc = "delete_row"]]
            /\ UNCHANGED modLast
    ELSE Return(c, "ok", StatusNone)

\* module.apply (mod.rs:98 and 194), one stretch between two awaits of the
\* provider.
ModApply ==
    /\ \E c \in ModCallers, again \in BOOLEAN :
         /\ modCalls[c].op \in ApplyOps
         /\ modCalls[c].pc \in ModulePcs
         /\ LET r == Apply(modKind, modOpt, modCalls[c], env, again)
            IN  env' = r.env /\ AfterModule(c, r)
    /\ UNCHANGED <<notMod, modKind, modOpt, modRow, modOps>>

\* module.destroy (mod.rs:115 and 305), one stretch between two awaits of
\* the provider.
ModDestroy ==
    /\ \E c \in ModCallers :
         /\ modCalls[c].op \in DestroyOps
         /\ modCalls[c].pc \in ModulePcs
         /\ LET r == Destroy(modKind, modCalls[c], env)
            IN  env' = r.env /\ AfterModule(c, r)
    /\ UNCHANGED <<notMod, modKind, modOpt, modRow, modOps>>

\* state.rs:229-237, update_duty_status (mod.rs:100 and 196): UPDATE duties
\* SET status WHERE name, which writes nothing when the row is gone.
ModUpdateDutyStatus ==
    /\ \E c \in ModCallers :
         /\ modCalls[c].pc = "status"
         /\ modRow' = IF modRow.exists THEN [modRow EXCEPT !.status = modCalls[c].doc]
                      ELSE modRow
         /\ modCalls' = [modCalls EXCEPT ![c].pc = "record"]
    /\ UNCHANGED <<notMod, modKind, modOpt, env, modLast, modOps>>

\* state.rs:296-308, record_duty_execution (mod.rs:101 and 197): the row is
\* read for its id, an Err when it is gone; the call returns.
ModRecordDutyExecution ==
    /\ \E c \in ModCallers :
         /\ modCalls[c].pc = "record"
         /\ IF modRow.exists THEN Return(c, "ok", modCalls[c].doc)
            ELSE Return(c, "err", modCalls[c].doc)
    /\ UNCHANGED <<notMod, modKind, modOpt, env, modRow, modOps>>

\* state.rs:239-246, delete_duty (mod.rs:117); destroy_duty returns.
ModDeleteDuty ==
    /\ \E c \in ModCallers :
         /\ modCalls[c].pc = "delete_row"
         /\ modRow' = [exists |-> FALSE, status |-> StatusNone]
         /\ Return(c, "ok", StatusNone)
    /\ UNCHANGED <<notMod, modKind, modOpt, env, modOps>>

\* ------------------------------------------------------------------------
\* kv/mod.rs, kv/stack_context.rs, kv/global_store.rs
\* ------------------------------------------------------------------------

\* kv/mod.rs:13-21, VariableType.
VarTypes == {"Const", "Var", "Global"}

\* A map without entries, and HashMap::insert / serde_json::Map::insert.
EmptyMap == [k \in {} |-> 0]
Put(m, k, v) == [x \in DOMAIN m \cup {k} |-> IF x = k THEN v ELSE m[x]]

\* serde_json::Value: a string, or an object of fields.
JStr(v) == [t |-> "string", v |-> v, f |-> EmptyMap]
JObj(f) == [t |-> "object", v |-> "", f |-> f]
JNull == [t |-> "null", v |-> "", f |-> EmptyMap]
JBool(b) == [t |-> "bool", v |-> IF b THEN "true" ELSE "false", f |-> EmptyMap]

\* A key is its dot-separated segments. The keys and values the calls are
\* drawn from.
KvStackKeys == {<<"duties", "b", "outputs">>, <<"duties", "b", "outputs", "arn">>}
KvGlobalKeys == {<<"k">>, <<"cfg", "p">>}
KvValues == {JStr("x"), JStr("y")}

\* The documents set_bulk is called with.
BulkInputs ==
    {JStr("x"),
     JObj([n \in {"p"} |-> JStr("x")]),
     JObj([n \in {"p"} |-> JObj([m \in {"q"} |-> JStr("x")])])}

\* key_prefix: Option<&str>.
NoPrefix == [some |-> FALSE, path |-> <<>>]
SomePrefix(path) == [some |-> TRUE, path |-> path]

\* kv/mod.rs:24-31, Variable, without its description and timestamps.
Variable(key, value, ty) == [key |-> key, value |-> value, var_type |-> ty]

Stored(var) == [value |-> var.value, var_type |-> var.var_type]

\* stack_context.rs:143-160: only Var is let into the stack context.
StackAccepts(ty) == ty = "Var"

GlobalAccepts_Any(ty) == TRUE

\* global_store.rs:125-137: Global and Const are let into the global store.
GlobalAccepts(ty) == ty \in {"Global", "Const"}

\* stack_context.rs:143-168, StackContext::set.
StackContextSet(store, var) ==
    IF StackAccepts(var.var_type)
    THEN [ok |-> TRUE, store |-> Put(store, var.key, Stored(var))]
    ELSE [ok |-> FALSE, store |-> store]

\* global_store.rs:125-151, GlobalKvStore::set on the in-memory storage.
GlobalStoreSet(store, var) ==
    IF GlobalAccepts(var.var_type)
    THEN [ok |-> TRUE, store |-> Put(store, var.key, Stored(var))]
    ELSE [ok |-> FALSE, store |-> store]

\* global_store.rs:62-66: format!("{}.{}", prefix, key), or the key alone.
FullKey(prefix, key) == IF prefix.some THEN Append(prefix.path, key) ELSE <<key>>

\* global_store.rs:59-81, set_bulk: one set_json, of type Global, for every
\* field of an object; a value that is no object goes under the prefix.
SetBulk(store, json, prefix) ==
    IF json.t = "object"
    THEN [ok |-> TRUE,
          store |-> [k \in DOMAIN store \cup {FullKey(prefix, n) : n \in DOMAIN json.f} |->
                       IF \E n \in DOMAIN json.f : k = FullKey(prefix, n)
                       THEN LET n == CHOOSE n \in DOMAIN json.f : k = FullKey(prefix, n)
                            IN  Stored(Variable(k, json.f[n], "Global"))
                       ELSE store[k]]]
    ELSE IF prefix.some
         THEN GlobalStoreSet(store, Variable(prefix.path, json, "Global"))
         ELSE [ok |-> FALSE, store |-> store]

RECURSIVE SetNestedField(_, _, _)
\* stack_context.rs:106-132, set_nested_field.
SetNestedField(map, path, value) ==
    IF Len(path) = 1 THEN [ok |-> TRUE, map |-> Put(map, path[1], value)]
    ELSE LET key == path[1]
             m1  == IF key \in DOMAIN map THEN map ELSE Put(map, key, JObj(EmptyMap))
         IN  IF m1[key].t = "object"
             THEN LET r == SetNestedField(m1[key].f, Tail(path), value)
                  IN  [ok |-> r.ok, map |-> IF r.ok THEN Put(m1, key, JObj(r.map)) ELSE m1]
             ELSE [ok |-> FALSE, map |-> m1]

RECURSIVE DutiesFold(_, _, _, _)
\* stack_context.rs:82-101, the loop of get_duties_context over vars.iter():
\* the keys "duties.<name>.<path>" are entered into the tree one by one.
DutiesFold(store, order, i, acc) ==
    IF i > Len(order) THEN [ok |-> TRUE, tree |-> JObj(acc)]
    ELSE LET key == order[i]
         IN  IF Len(key) >= 3 /\ key[1] = "duties"
             THEN LET a1 == IF key[2] \in DOMAIN acc THEN acc
                            ELSE Put(acc, key[2], JObj(EmptyMap))
                      r  == SetNestedField(a1[key[2]].f, SubSeq(key, 3, Len(key)),
                                           store[key].value)
                  IN  IF r.ok THEN DutiesFold(store, order, i + 1, Put(a1, key[2], JObj(r.map)))
                      ELSE [ok |-> FALSE, tree |-> JNull]
             ELSE DutiesFold(store, order, i + 1, acc)

\* stack_context.rs:76-104, get_duties_context, when the map iterates in the
\* given order.
GetDutiesContext(store, order) == DutiesFold(store, order, 1, EmptyMap)

\* The orders a HashMap of the given keys can iterate in.
IterationOrders(keys) ==
    {o \in [1..Cardinality(keys) -> keys] : \A i, j \in DOMAIN o : o[i] = o[j] => i = j}

KvCall(op, ok, key, ty, json, res) ==
    [op |-> op, ok |-> ok, key |-> key, ty |-> ty, json |-> json, res |-> res]

\* The numbers of entries at which a HashMap has no slot left: insert
\* reserves one slot before it looks the key up, and the table is rebuilt
\* when there is none.
FullLoads == {3, 7, 14}

\* HashMap::insert and the iteration order: an insert of a key that is there
\* already leaves the order alone unless the table is rebuilt; a new key may
\* land anywhere and move the others.
OrderAfter(before, after) ==
    /\ (DOMAIN after = DOMAIN before /\ Cardinality(DOMAIN before) \notin FullLoads)
            => kvOrder' = kvOrder
    /\ (DOMAIN after # DOMAIN before \/ Cardinality(DOMAIN before) \in FullLoads)
            => kvOrder' \in IterationOrders(DOMAIN after)

\* HashMap::remove: the entry is gone.
Remove(m, k) == [x \in DOMAIN m \ {k} |-> m[x]]

\* StackContext::set called with a variable of any type.
KvStackSet ==
    /\ kvOps < MaxKvOps
    /\ \E key \in KvStackKeys, v \in KvValues, ty \in VarTypes :
         LET r == StackContextSet(kvStack, Variable(key, v, ty))
         IN  /\ kvStack' = r.store
             /\ OrderAfter(kvStack, r.store)
             /\ kvLast' = KvCall("stack_set", r.ok, key, ty, v, JNull)
    /\ kvOps' = kvOps + 1
    /\ UNCHANGED <<notKv, kvGlobal, kvCallers>>

\* GlobalKvStore::set called with a variable of any type.
KvGlobalSet ==
    /\ kvOps < MaxKvOps
    /\ \E key \in KvGlobalKeys, v \in KvValues, ty \in VarTypes :
         LET r == GlobalStoreSet(kvGlobal, Variable(key, v, ty))
         IN  /\ kvGlobal' = r.store
             /\ kvLast' = KvCall("global_set", r.ok, key, ty, v, JNull)
    /\ kvOps' = kvOps + 1
    /\ UNCHANGED <<notKv, kvStack, kvOrder, kvCallers>>

\* stack_context.rs:170-174, StackContext::delete: Ok(whether the key was
\* there). The entries that stay keep their places.
KvStackDelete ==
    /\ kvOps < MaxKvOps
    /\ \E key \in KvStackKeys :
         /\ kvStack' = Remove(kvStack, key)
         /\ kvOrder' = SelectSeq(kvOrder, LAMBDA k : k # key)
         /\ kvLast' = KvCall("stack_delete", TRUE, key, "Var", JNull,
                             JBool(key \in DOMAIN kvStack))
    /\ kvOps' = kvOps + 1
    /\ UNCHANGED <<notKv, kvGlobal, kvCallers>>

\* stack_context.rs:32-38, StackContext::clear.
KvStackClear ==
    /\ kvOps < MaxKvOps
    /\ kvStack' = EmptyMap
    /\ kvOrder' = <<>>
    /\ kvLast' = KvCall("stack_clear", TRUE, <<>>, "Var", JNull, JNull)
    /\ kvOps' = kvOps + 1
    /\ UNCHANGED <<notKv, kvGlobal, kvCallers>>

\* global_store.rs:153-165, GlobalKvStore::delete on the in-memory storage.
KvGlobalDelete ==
    /\ kvOps < MaxKvOps
    /\ \E key \in KvGlobalKeys :
         /\ kvGlobal' = Remove(kvGlobal, key)
         /\ kvLast' = KvCall("global_delete", TRUE, key, "Global", JNull,
                             JBool(key \in DOMAIN kvGlobal))
    /\ kvOps' = kvOps + 1
    /\ UNCHANGED <<notKv, kvStack, kvOrder, kvCallers>>

\* global_store.rs:84-98, GlobalKvStore::clear on the in-memory storage.
KvGlobalClear ==
    /\ kvOps < MaxKvOps
    /\ kvGlobal' = EmptyMap
    /\ kvLast' = KvCall("global_clear", TRUE, <<>>, "Global", JNull, JNull)
    /\ kvOps' = kvOps + 1
    /\ UNCHANGED <<notKv, kvStack, kvOrder, kvCallers>>

\* kv/mod.rs:146-160, VariableContext::set: Const is refused, Var goes to
\* the stack context, Global to the global store.
KvContextSet ==
    /\ kvOps < MaxKvOps
    /\ \E ty \in VarTypes, v \in KvValues :
         \E key \in IF ty = "Var" THEN KvStackKeys ELSE KvGlobalKeys :
            IF ty = "Const"
            THEN /\ kvLast' = KvCall("context_set", FALSE, key, ty, v, JNull)
                 /\ UNCHANGED <<kvStack, kvOrder, kvGlobal>>
            ELSE IF ty = "Var"
            THEN LET r == StackContextSet(kvStack, Variable(key, v, "Var"))
                 IN  /\ kvStack' = r.store
                     /\ OrderAfter(kvStack, r.store)
                     /\ kvLast' = KvCall("context_set", r.ok, key, ty, v, JNull)
                     /\ UNCHANGED kvGlobal
            ELSE LET r == GlobalStoreSet(kvGlobal, Variable(key, v, "Global"))
                 IN  /\ kvGlobal' = r.store
                     /\ kvLast' = KvCall("context_set", r.ok, key, ty, v, JNull)
                     /\ UNCHANGED <<kvStack, kvOrder>>
    /\ kvOps' = kvOps + 1
    /\ UNCHANGED <<notKv, kvCallers>>

\* GlobalKvStore::set_bulk called with a document and Some("cfg") or None.
KvSetBulk ==
    /\ kvOps < MaxKvOps
    /\ \E json \in BulkInputs, prefix \in {NoPrefix, SomePrefix(<<"cfg">>)} :
         LET r == SetBulk(kvGlobal, json, prefix)
         IN  /\ kvGlobal' = r.store
             /\ kvLast' = KvCall(IF prefix.some THEN "set_bulk_prefix" ELSE "set_bulk",
                                 r.ok, prefix.path, "Global", json, JNull)
    /\ kvOps' = kvOps + 1
    /\ UNCHANGED <<notKv, kvStack, kvOrder, kvCallers>>

\* The tasks that call set_if_not_exists, and what each calls it with: the
\* store, and a variable of a type the store lets in, under one key per
\* store, with a value of the task's own.
Callers == {1, 2}
CallerStores == {"stack", "global"}
CallerVariable(c, store) ==
    Variable(IF store = "stack" THEN <<"duties", "b", "outputs">> ELSE <<"k">>,
             IF c = 1 THEN JStr("x") ELSE JStr("y"),
             IF store = "stack" THEN "Var" ELSE "Global")

NotCalling == [pc |-> "idle", store |-> "", found |-> FALSE, res |-> FALSE]

\* kv/mod.rs:89-91, exists: get(key).is_some(), under the store's read lock.
Exists(store, key) == key \in DOMAIN store

\* kv/mod.rs:94-95, set_if_not_exists up to the answer of exists; the read
\* lock is released when get returns.
KvIfNotExistsCheck ==
    /\ kvOps < MaxKvOps
    /\ \E c \in Callers, store \in CallerStores :
         /\ kvCallers[c].pc = "idle"
         /\ kvCallers' = [kvCallers EXCEPT ![c] =
                [pc |-> "checked", store |-> store, res |-> FALSE,
                 found |-> Exists(IF store = "stack" THEN kvStack ELSE kvGlobal,
                                  CallerVariable(c, store).key)]]
    /\ kvOps' = kvOps + 1
    /\ UNCHANGED <<notKv, kvStack, kvOrder, kvGlobal, kvLast>>

\* kv/mod.rs:95-100, set_if_not_exists from the answer of exists on: Ok(false),
\* or set, under the store's write lock, and Ok(true).
KvIfNotExistsSet ==
    /\ \E c \in Callers :
         LET call == kvCallers[c]
             var  == CallerVariable(c, call.store)
         IN  /\ call.pc = "checked"
             /\ IF call.found
                THEN UNCHANGED <<kvStack, kvOrder, kvGlobal>>
                ELSE IF call.store = "stack"
                THEN LET r == StackContextSet(kvStack, var)
                     IN  /\ kvStack' = r.store
                         /\ OrderAfter(kvStack, r.store)
                         /\ UNCHANGED kvGlobal
                ELSE /\ kvGlobal' = GlobalStoreSet(kvGlobal, var).store
                     /\ UNCHANGED <<kvStack, kvOrder>>
             /\ kvCallers' = [kvCallers EXCEPT ![c] =
                    [call EXCEPT !.pc = "done", !.res = ~call.found]]
             /\ kvLast' = KvCall("set_if_not_exists", TRUE, var.key, var.var_type,
                                 var.value, JNull)
    /\ UNCHANGED <<notKv, kvOps>>

\* StackContext::get_duties_context: a read of the variables.
KvGetDutiesContext ==
    /\ kvOps < MaxKvOps
    /\ LET r == GetDutiesContext(kvStack, kvOrder)
       IN  kvLast' = KvCall("get_duties_context", r.ok, <<>>, "Var", JNull, r.tree)
    /\ kvOps' = kvOps + 1
    /\ UNCHANGED <<notKv, kvStack, kvOrder, kvGlobal, kvCallers>>

\* ------------------------------------------------------------------------
\* controller/mod.rs: register_module, match_roster, select_module
\* ------------------------------------------------------------------------

\* The rosters create_roster is called with: the two of RosterRows and a
\* second AWS account.
RosterPool ==
    RosterRows \cup
    {[name |-> "r3", rank |-> 3, roster_type |-> "aws-account",
      traits |-> {"cloud-provider", "aws"}]}

\* The modules register_module is called with: the two of Registry and a
\* second module for S3Bucket duties.
ModulePool ==
    Registry \cup
    {[name |-> "s3-mirror", types |-> {"S3Bucket"}, required |-> {"cloud-provider", "aws"}]}

\* The roster_selector values match_roster is called with.
Selectors ==
    {a.selector : a \in DutyAttrs} \cup
    {[hasTraits |-> TRUE, traits |-> {"cloud-provider"}, roster_type |-> "aws-account"],
     [hasTraits |-> FALSE, traits |-> {}, roster_type |-> ""]}

\* The duty_type values select_module is called with.
DutyTypes == {a.duty_type : a \in DutyAttrs} \cup {"Route53Record"}

NoRoster == [name |-> "", rank |-> 0, roster_type |-> "", traits |-> {}]
NoSelector == [hasTraits |-> FALSE, traits |-> {}, roster_type |-> ""]

\* A call with its argument, the rosters table and the registrations it was
\* made on, and its result.
SelCall(op, ok, sel, ty, roster, module) ==
    [op |-> op, ok |-> ok, sel |-> sel, ty |-> ty, rows |-> selRosters,
     mods |-> selModules, roster |-> roster, module |-> module]

\* mod.rs:58-69, select_module over self.modules.values() in the order the
\* map iterates: the first module that supports the type.
SelectModuleFrom(values, dutyType) ==
    LET hits == {i \in DOMAIN values : dutyType \in values[i].types}
    IN  IF hits = {} THEN [ok |-> FALSE, module |-> ""]
        ELSE [ok |-> TRUE,
              module |-> values[CHOOSE i \in hits : \A j \in hits : i <= j].name]

\* The orders a HashMap holding the given modules can iterate in.
ModuleOrders(modules) ==
    {o \in [1..Cardinality(modules) -> modules] : \A i, j \in DOMAIN o : o[i] = o[j] => i = j}

\* mod.rs:27-32, register_module: modules.insert(name, module). A module of
\* a new name may land anywhere in the map's iteration order; one of a name
\* that is registered already replaces the entry where it stands, unless
\* the insert finds the table without a slot left and rebuilds it.
SelRegisterModule ==
    /\ selOps < MaxSelOps
    /\ \E m \in ModulePool :
         IF \E i \in DOMAIN selIter : selIter[i].name = m.name
         THEN /\ UNCHANGED selModules
              /\ IF Len(selIter) \in FullLoads
                 THEN selIter' \in ModuleOrders(Range(selIter))
                 ELSE UNCHANGED selIter
         ELSE /\ selModules' = Append(selModules, m)
              /\ selIter' \in ModuleOrders(Range(selIter) \cup {m})
    /\ selOps' = selOps + 1
    /\ UNCHANGED <<notSel, selRosters, selLast>>

\* state.rs:28-53, create_roster.
SelCreateRoster ==
    /\ selOps < MaxSelOps
    /\ \E r \in RosterPool : selRosters' = CreateRoster(selRosters, r)
    /\ selOps' = selOps + 1
    /\ UNCHANGED <<notSel, selModules, selIter, selLast>>

\* state.rs:125-132, delete_roster: DELETE FROM rosters WHERE name = $1.
DeleteRoster(rows, name) == {r \in rows : r.name # name}

\* state.rs:125-132, delete_roster.
SelDeleteRoster ==
    /\ selOps < MaxSelOps
    /\ \E r \in RosterPool : selRosters' = DeleteRoster(selRosters, r.name)
    /\ selOps' = selOps + 1
    /\ UNCHANGED <<notSel, selModules, selIter, selLast>>

\* mod.rs:35-56, match_roster for a duty with the given selector.
SelMatchRoster ==
    /\ selOps < MaxSelOps
    /\ \E sel \in Selectors :
         IF MatchRoster(sel, selRosters) = {}
         THEN selLast' = SelCall("match_roster", FALSE, sel, "", NoRoster, "")
         ELSE \E r \in MatchRoster(sel, selRosters) :
                 selLast' = SelCall("match_roster", TRUE, sel, "", r, "")
    /\ selOps' = selOps + 1
    /\ UNCHANGED <<notSel, selRosters, selModules, selIter>>

\* mod.rs:58-69, select_module for a duty of the given type.
SelSelectModule ==
    /\ selOps < MaxSelOps
    /\ \E ty \in DutyTypes :
         LET r == SelectModuleFrom(selIter, ty)
         IN  selLast' = SelCall("select_module", r.ok, NoSelector, ty, NoRoster, r.module)
    /\ selOps' = selOps + 1
    /\ UNCHANGED <<notSel, selRosters, selModules, selIter>>

\* ------------------------------------------------------------------------
\* modules/aws/s3_bucket.rs, modules/aws/utils.rs: retries
\* ------------------------------------------------------------------------

\* s3_bucket.rs:100, max_retries.
MaxRetries == 5

NoAttempt == [op |-> "none", ok |-> TRUE, attempts |-> 0]

RECURSIVE WebsiteAttempts(_, _, _)
\* s3_bucket.rs:104-122, the loop over the attempts: an Ok breaks out of it,
\* an Err is kept in last_error.
WebsiteAttempts(outcomes, attempt, last_error) ==
    IF attempt > MaxRetries THEN [attempts |-> MaxRetries, last_error |-> last_error]
    ELSE IF outcomes[attempt] THEN [attempts |-> attempt, last_error |-> last_error]
    ELSE WebsiteAttempts(outcomes, attempt + 1, TRUE)

\* s3_bucket.rs:89-127, apply from website_config on, the provider's other
\* calls answering Ok: Err when last_error holds an error after the loop.
ConfigureWebsite(website, outcomes) ==
    IF ~website THEN [op |-> "apply", ok |-> TRUE, attempts |-> 0]
    ELSE LET r == WebsiteAttempts(outcomes, 1, FALSE)
         IN  [op |-> "apply", ok |-> ~r.last_error, attempts |-> r.attempts]

RECURSIVE RetryWithBackoff(_, _, _)
\* utils.rs:13-52, retry_with_backoff: the first Ok is returned, the Err of
\* the last attempt otherwise.
RetryWithBackoff(outcomes, max_attempts, attempt) ==
    IF outcomes[attempt] THEN [op |-> "retry_with_backoff", ok |-> TRUE, attempts |-> attempt]
    ELSE IF attempt < max_attempts THEN RetryWithBackoff(outcomes, max_attempts, attempt + 1)
    ELSE [op |-> "retry_with_backoff", ok |-> FALSE, attempts |-> attempt]

\* S3BucketModule::apply.
RetryApply ==
    /\ rtRes = NoAttempt
    /\ rtRes' = ConfigureWebsite(rtWebsite, rtOutcomes)
    /\ UNCHANGED <<notRetry, rtWebsite, rtOutcomes>>

\* retry_with_backoff called with max_attempts = 5.
RetryBackoff ==
    /\ rtRes = NoAttempt
    /\ rtRes' = RetryWithBackoff(rtOutcomes, MaxRetries, 1)
    /\ UNCHANGED <<notRetry, rtWebsite, rtOutcomes>>

\* ------------------------------------------------------------------------
\* Specifications
\* ------------------------------------------------------------------------

InitDag ==
    /\ dagNodes \in (SUBSET Names) \ {{}}
    /\ dagEdges \in [dagNodes -> DepSeqs]
    /\ dagRes = NoRes

IdleDag ==
    /\ dagNodes = {"a"}
    /\ dagEdges = [n \in {"a"} |-> <<>>]
    /\ dagRes = NoRes

Refs(names) ==
    {NoRef} \cup {[duty |-> d, target |-> e, guarded |-> g] :
                    d \in names, e \in names, g \in BOOLEAN}

Configs ==
    UNION {[names : {ns}, deps : [ns -> CtlDepSeqs], ref : Refs(ns), target : ns] :
             ns \in (SUBSET Names) \ {{}}}

DeployedStatus == [phase |-> "deployed", has |-> FALSE, out |-> <<>>]

\* The duties load_duties_with_instructions returns for the configuration
\* when the spec of its target duty calls g8r_secret("k1"), as the specs of
\* the controller.
InstructionDuties(c) ==
    LET src == [n \in c.names |->
                   IF n = c.target THEN <<[fn |-> "g8r_secret", args |-> <<"k1">>]>> ELSE <<>>]
        out == LoadDutiesWithInstructions(src).duties
    IN  [n \in c.names |->
            IF \E k \in DOMAIN out[n].spec : out[n].spec[k].kind = "token"
            THEN SpecToken ELSE SpecLit]

\* The duties table before the run: the configuration's duties as an earlier
\* run left them (prior), a duty of another stack (foreign).
InitialDb(c, prior, foreign) ==
    [d \in (IF prior THEN c.names ELSE {}) \cup (IF foreign THEN {Foreign} ELSE {}) |->
        IF d = Foreign THEN [deps |-> <<>>, spec |-> SpecLit, status |-> DeployedStatus]
        ELSE [deps |-> c.deps[d], spec |-> SpecLit, status |-> DeployedStatus]]

InitCtl ==
    /\ ctlMode \in {"nickel", "dag", "duty", "destroy"}
    /\ cfg \in Configs
    /\ cfg.ref # NoRef => cfg.ref.duty # cfg.ref.target
    /\ ctlMode # "duty" => cfg.target = CHOOSE n \in cfg.names : TRUE
    /\ ctlMode = "duty" => cfg.ref = NoRef /\ \A n \in cfg.names : cfg.deps[n] = <<>>
    /\ ctlMode = "dag" => EvalDuties(cfg, RuntimeCtx(<<>>)).ok
    /\ ctlMode = "destroy" => cfg.ref = NoRef
    /\ \E prior \in BOOLEAN, foreign \in BOOLEAN :
         /\ ctlMode # "nickel" => ~foreign
         /\ db = InitialDb(cfg, prior, foreign)
    /\ ctlPc = "init"
    /\ ctlPlan = <<>>
    /\ ctlBatch = 0
    /\ ctlTodo = {}
    /\ ctlCur \in IF ctlMode = "dag"
                   THEN {EvalDuties(cfg, RuntimeCtx(<<>>)).duties}
                        \cup (IF cfg.ref = NoRef THEN {InstructionDuties(cfg)} ELSE {})
                   ELSE IF ctlMode = "destroy" THEN {EvalDuties(cfg, PlainCtx).duties}
                   ELSE {<<>>}
    /\ ctlCtx = IF ctlMode = "dag" THEN RuntimeCtx(<<>>) ELSE PlainCtx
    /\ ctlOuts = <<>>
    /\ ctlDuty = NoDuty
    /\ ctlErr = ""
    /\ ctlLog = <<>>
    /\ ctlRosters \in {{}, RosterRows}
    /\ ctlQueue = <<>>
    /\ ctlPend = {}
    /\ ctlOthers = {}

IdleCtl ==
    /\ ctlMode = "nickel"
    /\ cfg = [names |-> {"a"}, deps |-> [n \in {"a"} |-> <<>>], ref |-> NoRef, target |-> "a"]
    /\ db = <<>>
    /\ ctlPc = "idle"
    /\ ctlPlan = <<>>
    /\ ctlBatch = 0
    /\ ctlTodo = {}
    /\ ctlCur = <<>>
    /\ ctlCtx = PlainCtx
    /\ ctlOuts = <<>>
    /\ ctlDuty = NoDuty
    /\ ctlErr = ""
    /\ ctlLog = <<>>
    /\ ctlRosters = {}
    /\ ctlQueue = <<>>
    /\ ctlPend = {}
    /\ ctlOthers = {}

\* An empty provider account and an empty duties table.
NoEnv == [bucket |-> FALSE, user |-> FALSE, keys |-> {}, certs |-> {}, next |-> 1]

InitMod ==
    /\ modKind \in ModuleKinds
    /\ modOpt \in BOOLEAN
    /\ modKind = "s3-bucket" => modOpt = FALSE
    /\ env = NoEnv
    /\ modRow = [exists |-> FALSE, status |-> StatusNone]
    /\ modLast = Called("none", "ok", StatusNone, TRUE)
    /\ modCalls = [c \in ModCallers |-> NoCall]
    /\ modOps = 0

IdleMod ==
    /\ modKind = "s3-bucket"
    /\ modOpt = FALSE
    /\ env = NoEnv
    /\ modRow = [exists |-> FALSE, status |-> StatusNone]
    /\ modLast = Called("none", "ok", StatusNone, TRUE)
    /\ modCalls = [c \in ModCallers |-> NoCall]
    /\ modOps = MaxOps

LoadNames == {"a", "b"}

\* A source of two duties with at most MaxCalls g8r_* calls between them.
InitLoad ==
    /\ \E la \in 0..MaxCalls :
         \E lb \in 0..(MaxCalls - la) :
            \E ca \in [1..la -> Calls], cb \in [1..lb -> Calls] :
                ldSrc = [n \in LoadNames |-> IF n = "a" THEN ca ELSE cb]
    /\ ldOut = NotLoaded
    /\ ldPc = "init"

IdleLoad ==
    /\ ldSrc = [n \in {"a"} |-> <<>>]
    /\ ldOut = NotLoaded
    /\ ldPc = "idle"

\* A variable context as VariableContext::new leaves it.
InitKv ==
    /\ kvStack = EmptyMap
    /\ kvOrder = <<>>
    /\ kvGlobal = EmptyMap
    /\ kvLast = KvCall("none", TRUE, <<>>, "Var", JNull, JNull)
    /\ kvOps = 0
    /\ kvCallers = [c \in Callers |-> NotCalling]

IdleKv ==
    /\ kvStack = EmptyMap
    /\ kvOrder = <<>>
    /\ kvGlobal = EmptyMap
    /\ kvLast = KvCall("none", TRUE, <<>>, "Var", JNull, JNull)
    /\ kvOps = MaxKvOps
    /\ kvCallers = [c \in Callers |-> NotCalling]

\* Controller::new on a database without rosters.
InitSel ==
    /\ selRosters = {}
    /\ selModules = <<>>
    /\ selIter = <<>>
    /\ selLast = SelCall("none", TRUE, NoSelector, "", NoRoster, "")
    /\ selOps = 0

IdleSel ==
    /\ selRosters = {}
    /\ selModules = <<>>
    /\ selIter = <<>>
    /\ selLast = SelCall("none", TRUE, NoSelector, "", NoRoster, "")
    /\ selOps = MaxSelOps

\* A duty with or without website_config, and a provider that answers each
\* attempt with Ok or Err.
InitRetry ==
    /\ rtWebsite \in BOOLEAN
    /\ rtOutcomes \in [1..MaxRetries -> BOOLEAN]
    /\ rtRes = NoAttempt

IdleRetry ==
    /\ rtWebsite = FALSE
    /\ rtOutcomes = [i \in 1..MaxRetries |-> TRUE]
    /\ rtRes = [op |-> "idle", ok |-> TRUE, attempts |-> 0]

InitStack ==
    /\ \E last \in {NoVersion, "v1"} :
         stacks = [s \in StackIds |->
                     IF s = 2 /\ last # NoVersion
                     THEN [id |-> s, status |-> "synced", last_sync_version |-> last]
                     ELSE [id |-> s, status |-> "pending", last_sync_version |-> NoVersion]]
    /\ stackSeq = Cardinality(StackIds) + 1
    /\ remote = [s \in StackIds |-> "v1"]
    /\ repoHead = [s \in StackIds |-> NoVersion]
    /\ tasks = <<>>
    /\ handles = [r \in RowIds |-> 0]
    /\ inserts = {}

IdleStack ==
    /\ stacks = [s \in StackIds |->
                    [id |-> s, status |-> "pending", last_sync_version |-> NoVersion]]
    /\ stackSeq = Cardinality(StackIds) + 1
    /\ remote = [s \in StackIds |-> "v1"]
    /\ repoHead = [s \in StackIds |-> NoVersion]
    /\ tasks = <<>>
    /\ handles = [r \in RowIds |-> 0]
    /\ inserts = {}

DagSort ==
    /\ dagRes = NoRes
    /\ dagRes' = [op |-> "topological_sort"] @@ TopologicalSort(dagNodes, dagEdges)
    /\ UNCHANGED <<dagNodes, dagEdges, notDag>>

DagPlan ==
    /\ dagRes = NoRes
    /\ dagRes' = [op |-> "get_execution_plan"] @@ GetExecutionPlan(dagNodes, dagEdges)
    /\ UNCHANGED <<dagNodes, dagEdges, notDag>>

NextDag == DagSort \/ DagPlan

DagInit == InitDag /\ IdleCtl /\ IdleStack /\ IdleMod /\ IdleLoad /\ IdleKv /\ IdleSel /\ IdleRetry

SpecDag == DagInit /\ [][NextDag]_vars

NextCtl ==
    \/ CtlLoadRosters \/ CtlCreateRoster \/ CtlLoadDuties
    \/ CtlUpsertDuty \/ CtlListDuties
    \/ CtlLoadDag \/ CtlLoadDuty
    \/ CtlBatchNickel \/ CtlBatchDag
    \/ CtlPick \/ CtlValidate
    \/ CtlApply \/ CtlUpdateDutyStatus \/ CtlRecordDutyExecution
    \/ CtlCreateDuty
    \/ CtlBatchEnd \/ CtlFinish
    \/ CtlLoadDestroy \/ CtlBatchDestroy \/ CtlDestroy

CtlInit == IdleDag /\ InitCtl /\ IdleStack /\ IdleMod /\ IdleLoad /\ IdleKv /\ IdleSel /\ IdleRetry

SpecCtl == CtlInit /\ [][NextCtl]_vars

NextStack ==
    \/ StackStart \/ StackCreate \/ StackRegister \/ StackInsert
    \/ StackUnregister \/ StackStop \/ StackSync \/ StackDestroy \/ StackDelete
    \/ RemotePush
    \/ TaskInit \/ TaskFetch \/ TaskGetVersion \/ TaskSyncing
    \/ TaskReconcile \/ TaskResult \/ TaskError \/ TaskDestroy

StackInit == IdleDag /\ IdleCtl /\ InitStack /\ IdleMod /\ IdleLoad /\ IdleKv /\ IdleSel /\ IdleRetry

SpecStack == StackInit /\ [][NextStack]_vars

NextMod ==
    \/ ModCreateDuty
    \/ ModReconcileFromNickel \/ ModListDuties \/ ModReconcileDuty
    \/ ModDestroyFromNickel \/ ModDestroyDuty
    \/ ModApply \/ ModDestroy
    \/ ModUpdateDutyStatus \/ ModRecordDutyExecution \/ ModDeleteDuty

ModInit == IdleDag /\ IdleCtl /\ IdleStack /\ InitMod /\ IdleLoad /\ IdleKv /\ IdleSel /\ IdleRetry

SpecMod == ModInit /\ [][NextMod]_vars

NextLoad == LoadWithInstructions \/ LoadWithVariableContext

LoadInit == IdleDag /\ IdleCtl /\ IdleStack /\ IdleMod /\ InitLoad /\ IdleKv /\ IdleSel /\ IdleRetry

SpecLoad == LoadInit /\ [][NextLoad]_vars

NextKv ==
    \/ KvStackSet \/ KvGlobalSet \/ KvContextSet
    \/ KvSetBulk \/ KvGetDutiesContext
    \/ KvStackDelete \/ KvStackClear \/ KvGlobalDelete \/ KvGlobalClear
    \/ KvIfNotExistsCheck \/ KvIfNotExistsSet

KvInit == IdleDag /\ IdleCtl /\ IdleStack /\ IdleMod /\ IdleLoad /\ InitKv /\ IdleSel /\ IdleRetry

SpecKv == KvInit /\ [][NextKv]_vars

NextSel ==
    \/ SelRegisterModule \/ SelCreateRoster \/ SelDeleteRoster
    \/ SelMatchRoster \/ SelSelectModule

SelInit == IdleDag /\ IdleCtl /\ IdleStack /\ IdleMod /\ IdleLoad /\ IdleKv /\ InitSel /\ IdleRetry

SpecSel == SelInit /\ [][NextSel]_vars

NextRetry == RetryApply \/ RetryBackoff

RetryInit ==
    IdleDag /\ IdleCtl /\ IdleStack /\ IdleMod /\ IdleLoad /\ IdleKv /\ IdleSel /\ InitRetry

SpecRetry == RetryInit /\ [][NextRetry]_vars

\* ------------------------------------------------------------------------
\* Properties of the planner
\* ------------------------------------------------------------------------

\* The depends_on relation restricted to the duty set.
DependsOn(nodes, edges) == {<<n, d>> \in nodes \X nodes : d \in Range(edges[n])}

RECURSIVE ReachFrom(_, _, _)
ReachFrom(R, S, k) ==
    IF k = 0 THEN S
    ELSE ReachFrom(R, S \cup {e[2] : e \in {x \in R : x[1] \in S}}, k - 1)

\* Some duty reaches itself along depends_on (a self reference included).
HasCycle(nodes, edges) ==
    LET R == DependsOn(nodes, edges)
    IN  \E n \in nodes :
            n \in ReachFrom(R, {e[2] : e \in {x \in R : x[1] = n}}, Cardinality(nodes))

AllDepsExist(nodes, edges) == \A n \in nodes : Range(edges[n]) \subseteq nodes

BatchOf(batches, n) == CHOOSE i \in DOMAIN batches : n \in batches[i]

IsPartition(batches, nodes) ==
    /\ \A i \in DOMAIN batches : batches[i] # {}
    /\ \A n \in nodes : Cardinality({i \in DOMAIN batches : n \in batches[i]}) = 1
    /\ \A i \in DOMAIN batches : batches[i] \subseteq nodes

DagCalled == dagRes.op # "none"

\* C1: for a duty set whose depends_on references all exist and form no
\* cycle, the planner succeeds, its batches partition the duty names (every
\* name in exactly one batch, no batch empty) and every dependency of a duty
\* lies in a strictly earlier batch than the duty.
C1_PartitionAndOrder ==
    (DagCalled /\ AllDepsExist(dagNodes, dagEdges) /\ ~HasCycle(dagNodes, dagEdges))
        => /\ dagRes.ok
           /\ IsPartition(dagRes.batches, dagNodes)
           /\ \A n \in dagNodes : \A d \in Range(dagEdges[n]) :
                  BatchOf(dagRes.batches, d) < BatchOf(dagRes.batches, n)

\* A plan has been produced for three duties, one of which lists the two
\* others, which share the first batch.
C1_Witness ==
    /\ DagCalled /\ dagRes.ok
    /\ dagNodes = Names
    /\ Len(dagRes.batches) = 2
    /\ \E n \in dagNodes : Cardinality(Range(dagEdges[n])) = 2

\* C2 as stated: for every duty set whose depends_on relation contains a
\* cycle, topological_sort and get_execution_plan return an error that
\* mentions a circular dependency, and no batches.
C2_Original ==
    (DagCalled /\ HasCycle(dagNodes, dagEdges))
        => (~dagRes.ok /\ dagRes.err = ErrCircular /\ dagRes.batches = <<>>)

\* C2, amended: for every duty set whose depends_on relation contains a
\* cycle, both planner calls return an error and no batches; the error is
\* the circular-dependency one when every depends_on reference exists, and
\* the missing-dependency one otherwise.
C2_CycleFails ==
    (DagCalled /\ HasCycle(dagNodes, dagEdges))
        => /\ ~dagRes.ok
           /\ dagRes.batches = <<>>
           /\ dagRes.err = IF AllDepsExist(dagNodes, dagEdges)
                            THEN ErrCircular ELSE ErrMissing

\* get_execution_plan has been called on two duties that depend on each
\* other, beside a third that depends on nothing.
C2_Witness ==
    /\ dagRes.op = "get_execution_plan"
    /\ dagNodes = Names
    /\ AllDepsExist(dagNodes, dagEdges)
    /\ HasCycle(dagNodes, dagEdges)
    /\ \E n \in dagNodes : dagEdges[n] = <<>>
    /\ \A n \in dagNodes : n \notin Range(dagEdges[n])

\* ------------------------------------------------------------------------
\* Properties of the controller
\* ------------------------------------------------------------------------

IsCall(e) == e.op \in {"validate", "apply"}

\* The names of the batches before batch b of the plan.
EarlierNames(b) == UNION {ctlPlan[k] : k \in 1..(b - 1)}

\* Place in the log of the successful apply of duty n, 0 if there is none.
AppliedAt(n) ==
    IF \E i \in DOMAIN ctlLog : ctlLog[i].op = "apply" /\ ctlLog[i].res = "ok"
                                /\ ctlLog[i].duty = n
    THEN CHOOSE i \in DOMAIN ctlLog : ctlLog[i].op = "apply" /\ ctlLog[i].res = "ok"
                                      /\ ctlLog[i].duty = n
    ELSE 0

\* The outputs collected from the duties of the batches before b: those whose
\* apply returned a document with an outputs field.
EarlierOutputs(b) ==
    [n \in {m \in EarlierNames(b) : AppliedAt(m) # 0 /\ ctlLog[AppliedAt(m)].doc.has} |->
        ctlLog[AppliedAt(n)].doc.out]

\* C3: within one reconcile_from_nickel, before validate or apply is invoked
\* for a duty of a batch, the apply of every duty of every earlier batch has
\* returned and its status has been persisted: the row holds the document.
C3_BatchOrder ==
    ctlMode = "nickel" =>
        \A i \in DOMAIN ctlLog :
            IsCall(ctlLog[i]) =>
                \A n \in EarlierNames(ctlLog[i].batch) :
                    \E j \in 1..(i - 1), k \in 1..(i - 1) :
                        /\ j < k
                        /\ ctlLog[j].op = "apply" /\ ctlLog[j].res = "ok"
                        /\ ctlLog[j].duty = n
                        /\ ctlLog[k].op = "persist" /\ ctlLog[k].duty = n
                        /\ n \in DOMAIN db /\ db[n].status = ctlLog[j].doc

\* A duty of the second batch has been applied after the two duties of the
\* first batch.
C3_Witness ==
    /\ ctlMode = "nickel"
    /\ Len(ctlPlan) >= 2 /\ Cardinality(ctlPlan[1]) = 2
    /\ \E i \in DOMAIN ctlLog : ctlLog[i].op = "apply" /\ ctlLog[i].batch = 2

\* C4: in reconcile_from_nickel, the runtime context under which the duty of
\* a validate or apply call was evaluated holds the outputs of exactly the
\* duties of the earlier batches whose apply result had an outputs field, and
\* nothing of the duty's own batch or of a later one.
C4_ContextIsEarlierOutputs ==
    ctlMode = "nickel" =>
        \A i \in DOMAIN ctlLog :
            IsCall(ctlLog[i]) => ctlLog[i].ctx.duties = EarlierOutputs(ctlLog[i].batch)

\* In the second batch a duty was applied and returned outputs, and another
\* duty of that batch was validated after it, under a context that holds the
\* outputs of the first batch.
C4_Witness ==
    /\ ctlMode = "nickel"
    /\ \E i \in DOMAIN ctlLog, j \in DOMAIN ctlLog :
         /\ i < j
         /\ ctlLog[i].op = "apply" /\ ctlLog[i].res = "ok" /\ ctlLog[i].doc.has
         /\ ctlLog[i].batch = 2
         /\ ctlLog[j].op = "validate" /\ ctlLog[j].batch = 2
         /\ ctlLog[j].duty # ctlLog[i].duty
         /\ ctlLog[j].ctx.duties # <<>>

\* C5 as stated: in reconcile_from_nickel and in reconcile_duties_dag, the
\* duty handed to validate and apply in a batch after the first is the one
\* re-evaluated under the outputs collected so far: a spec that references an
\* output of an earlier-batch duty reaches the module as that output's value.
C5_ReEvaluatedSpec ==
    ctlMode \in {"nickel", "dag"} =>
        \A i \in DOMAIN ctlLog :
            (/\ IsCall(ctlLog[i])
             /\ ctlLog[i].batch > 1
             /\ cfg.ref # NoRef
             /\ cfg.ref.duty = ctlLog[i].duty
             /\ cfg.ref.target \in DOMAIN EarlierOutputs(ctlLog[i].batch))
                => /\ ctlLog[i].ctx = RuntimeCtx(EarlierOutputs(ctlLog[i].batch))
                   /\ ctlLog[i].spec = SpecValue(EarlierOutputs(ctlLog[i].batch)[cfg.ref.target])

\* C6: within one reconciliation apply is invoked at most once per duty, and
\* the first failure (module selection, roster matching, trait verification,
\* validate, apply) is the last thing the run does: nothing is invoked after
\* it and the run returns that error.
C6_AtMostOnceAndAbort ==
    /\ \A i \in DOMAIN ctlLog, j \in DOMAIN ctlLog :
         (i < j /\ ctlLog[i].op = "apply" /\ ctlLog[j].op = "apply")
             => ctlLog[i].duty # ctlLog[j].duty
    /\ \A i \in DOMAIN ctlLog :
         ctlLog[i].res = "err"
             => /\ i = Len(ctlLog)
                /\ ctlPc = "failed"
                /\ ctlErr = ctlLog[i].err
    /\ ctlPc = "failed" => ~ENABLED NextCtl

\* The run has failed at the validate or apply of a duty after another duty
\* was applied, with a duty of the plan still untouched.
C6_Witness ==
    /\ ctlPc = "failed"
    /\ ctlLog # <<>>
    /\ IsCall(ctlLog[Len(ctlLog)]) /\ ctlLog[Len(ctlLog)].res = "err"
    /\ \E i \in DOMAIN ctlLog : ctlLog[i].op = "apply" /\ ctlLog[i].res = "ok"
    /\ \E n \in UNION Range(ctlPlan) : \A i \in DOMAIN ctlLog : ctlLog[i].duty # n

\* C7 as stated: when validate or apply of a duty fails, the reconciliation
\* aborts at that duty and the duty's persisted status records phase failed.
C7_FailedStatusRecorded ==
    (/\ ctlPc = "failed"
     /\ ctlLog # <<>>
     /\ IsCall(ctlLog[Len(ctlLog)])
     /\ ctlLog[Len(ctlLog)].res = "err")
        => /\ ctlLog[Len(ctlLog)].duty \in DOMAIN db
           /\ db[ctlLog[Len(ctlLog)].duty].status.phase = "failed"

\* ------------------------------------------------------------------------
\* Properties of the stack manager
\* ------------------------------------------------------------------------

\* The reconciliation loops of the stack row with id r that were spawned and
\* neither returned nor were aborted.
LoopsRunning(r) ==
    {i \in DOMAIN tasks :
        tasks[i].kind = "loop" /\ tasks[i].id = r /\ Running(tasks[i])}

\* C8: once every start and register_stack call made has returned, at most
\* one reconciliation task is running for any stack id, whatever start,
\* register_stack, unregister_stack and stop calls were made.
C8_OneTaskPerStack ==
    inserts = {} => \A r \in RowIds : Cardinality(LoopsRunning(r)) <= 1

\* C9: a cycle of a stack's periodic loop does not reconcile a version that
\* an earlier cycle of the same loop reconciled successfully: it skips.
C9_SkipsReconciledVersion ==
    \A i \in DOMAIN tasks :
        tasks[i].kind = "loop" /\ tasks[i].pc = "reconcile"
            => tasks[i].version \notin tasks[i].synced

\* The step in which task i, whose controller reconciliation returned Ok,
\* ends its reconcile_once: written tells whether update_stack_sync returned
\* Ok (the call returns Ok) or Err (the call returns that Err).
SyncWrite(i, written) ==
    /\ tasks[i].pc = "result" /\ tasks[i].result = "ok"
    /\ IF written
       THEN \/ tasks'[i].pc = "wait"
            \/ tasks'[i].pc = "returned" /\ tasks'[i].result = "ok"
       ELSE \/ tasks'[i].pc = "error"
            \/ tasks'[i].pc = "returned" /\ tasks'[i].result = "write_failed"

C11_EqualVersionSkips ==
    [][\A i \in DOMAIN tasks :
          /\ (tasks[i].pc = "version" /\ GetVersion(tasks[i].stack) = tasks[i].last)
                => tasks'[i].pc \notin {"syncing", "reconcile"}
          /\ (tasks[i].pc = "version" /\ tasks'[i].pc \in {"wait", "returned"}
                                      /\ GetVersion(tasks[i].stack) = tasks[i].last)
                => stacks' = stacks
      ]_vars

\* A manual sync of a stack whose working copy stands at the stack's cursor
\* returned without reconciling.
C11_Witness ==
    \E i \in DOMAIN tasks :
        /\ tasks[i].pc = "returned" /\ tasks[i].result = "no_updates"
        /\ repoHead[tasks[i].stack] = stacks[tasks[i].stack].last_sync_version

\* C12: when the controller's reconciliation fails, which is after the status
\* was set to "syncing", the call that ran it, in the periodic loop or in a
\* manual sync, leaves the stack's status "error" and its last_sync_version
\* as it was.
C12_FailureLeavesError ==
    [][\A i \in DOMAIN tasks :
          (/\ tasks[i].pc = "result" /\ tasks[i].result = "err"
           /\ tasks'[i].pc \in {"wait", "returned"}
           /\ tasks[i].stack \in StackRows(stacks))
             => /\ stacks'[tasks[i].stack].status = "error"
                /\ stacks'[tasks[i].stack].last_sync_version
                      = stacks[tasks[i].stack].last_sync_version
      ]_vars

\* C13: a periodic task never ends on its own: after a failure of the source
\* in init, fetch or get_version it stays alive for another cycle.
C13_LoopStaysAlive ==
    \A i \in DOMAIN tasks : tasks[i].kind = "loop" => tasks[i].pc # "returned"

\* The tasks that are between the status write "syncing" and the end of
\* their reconciliation of stack s.
Reconciling(s) ==
    {i \in DOMAIN tasks : tasks[i].stack = s /\ tasks[i].pc \in {"reconcile", "result"}}

\* C14: no two reconciliations of one stack are in progress at the same time.
C14_Serialized ==
    \A s \in StackIds : Cardinality(Reconciling(s)) <= 1

\* C15: a reconcile_once whose fetch succeeded reconciles the commit the
\* remote branch stands at: get_version after fetch returns the remote tip.
C15_VersionFollowsFetch ==
    [][\A i \in DOMAIN tasks :
          (tasks[i].pc = "version" /\ tasks'[i].pc = "syncing")
             => tasks'[i].version = remote[tasks[i].stack]
      ]_vars

\* The duties of the configuration that name duty n among their dependencies.
Dependents(n) == {m \in cfg.names : n \in Range(cfg.deps[m])}

\* C16: in destroy_duties_dag, destroy is called on a duty only after destroy
\* has returned Ok for every duty that depends on it; a failed destroy is the
\* last call of the run, so no dependency of the failing duty is destroyed.
C16_DependentsFirst ==
    ctlMode = "destroy" =>
        /\ \A i \in DOMAIN ctlLog :
             ctlLog[i].op = "destroy" =>
                 \A m \in Dependents(ctlLog[i].duty) :
                     \E j \in 1..(i - 1) :
                         /\ ctlLog[j].op = "destroy" /\ ctlLog[j].res = "ok"
                         /\ ctlLog[j].duty = m
        /\ \A i \in DOMAIN ctlLog :
             (ctlLog[i].op = "destroy" /\ ctlLog[i].res = "err")
                 => /\ i = Len(ctlLog)
                    /\ ctlPc = "failed"
                    /\ \A n \in Range(cfg.deps[ctlLog[i].duty]) :
                          \A j \in DOMAIN ctlLog : ctlLog[j].duty # n

\* A run of destroy_duties_dag that destroyed a dependent and then failed on
\* a duty that has a dependency of its own, which is left alone.
C16_Witness ==
    /\ ctlMode = "destroy" /\ ctlPc = "failed"
    /\ Len(ctlLog) >= 2
    /\ ctlLog[Len(ctlLog)].op = "destroy" /\ ctlLog[Len(ctlLog)].res = "err"
    /\ Dependents(ctlLog[Len(ctlLog)].duty) # {}
    /\ Range(cfg.deps[ctlLog[Len(ctlLog)].duty]) # {}

\* ------------------------------------------------------------------------
\* Properties of instruction rewriting
\* ------------------------------------------------------------------------

\* C19 as stated: no validate or apply call of the controller is handed a
\* spec that still holds an instruction token.
C19_NoTokenReachesModule ==
    \A i \in DOMAIN ctlLog : IsCall(ctlLog[i]) => ctlLog[i].spec # SpecToken

\* C20 as stated: after a load with instruction rewriting, every token in a
\* duty's spec has its instruction record, with the token, the type and the
\* arguments of the call it stands for, in the duty's metadata.instructions.
C20_InstructionsAttached ==
    (ldPc = "loaded" /\ ldOut.ok) =>
        \A n \in DOMAIN ldOut.duties :
            \A k \in DOMAIN ldOut.duties[n].spec :
                ldOut.duties[n].spec[k].kind = "token" =>
                    \E j \in DOMAIN ldOut.duties[n].instructions :
                        LET inst == ldOut.duties[n].instructions[j]
                        IN  /\ inst.token = ldOut.duties[n].spec[k].id
                            /\ inst.instruction_type = ldSrc[n][k].fn
                            /\ inst.args = ldSrc[n][k].args

\* The calls of the loaded source in the order of the text.
LoadedFlat == FlatFrom(ldSrc, 1)

\* The places of the source whose call was replaced by a token.
TokenPlaces == {p \in DOMAIN ldOut.rewritten.tokens : ldOut.rewritten.tokens[p] # 0}

\* The instruction records that carry token t.
RecordsOf(t) ==
    {j \in DOMAIN ldOut.rewritten.instructions : ldOut.rewritten.instructions[j].token = t}

\* C21 as stated: the KV-aware rewriting replaces g8r_env, like g8r_get,
\* g8r_global and g8r_const, by a value, and gives a token with exactly one
\* instruction record carrying the call's arguments to the g8r_output and
\* g8r_secret calls and to no others.
C21_EnvResolvedInline ==
    (ldPc = "loaded" /\ ldOut.loader = "variable_context" /\ ldOut.rewritten.ok) =>
        /\ \A p \in DOMAIN LoadedFlat :
              LoadedFlat[p].fn \in {"g8r_env", "g8r_get", "g8r_global", "g8r_const"}
                  => p \notin TokenPlaces
        /\ \A p \in DOMAIN LoadedFlat :
              (LoadedFlat[p].fn \in {"g8r_output", "g8r_secret"}
                    /\ Matches(InstructionPatterns, LoadedFlat[p]))
                  => /\ p \in TokenPlaces
                     /\ Cardinality(RecordsOf(ldOut.rewritten.tokens[p])) = 1
                     /\ \A j \in RecordsOf(ldOut.rewritten.tokens[p]) :
                           ldOut.rewritten.instructions[j].args = LoadedFlat[p].args
        /\ Len(ldOut.rewritten.instructions)
              = Cardinality({p \in DOMAIN LoadedFlat :
                                /\ LoadedFlat[p].fn \in {"g8r_output", "g8r_secret"}
                                /\ Matches(InstructionPatterns, LoadedFlat[p])})

\* The places of the source that hold a call process_g8r_functions has a
\* pattern for.
PseudoCalls == {p \in DOMAIN LoadedFlat : Matches(InstructionPatterns, LoadedFlat[p])}

\* The token numbers are 1..n, each used once, as many as there are
\* pseudo-function calls and instruction records.
TokensCounted ==
    /\ Cardinality(TokenPlaces) = Cardinality(PseudoCalls)
    /\ Cardinality(TokenPlaces) = Len(ldOut.rewritten.instructions)
    /\ {ldOut.rewritten.tokens[p] : p \in TokenPlaces} = 1..Cardinality(TokenPlaces)
    /\ \A p \in TokenPlaces, q \in TokenPlaces :
          ldOut.rewritten.tokens[p] = ldOut.rewritten.tokens[q] => p = q
    /\ \A j \in DOMAIN ldOut.rewritten.instructions :
          ldOut.rewritten.instructions[j].token = j

\* C22 as stated: after process_g8r_functions the tokens are counted as
\* above and their numbers increase with the place of the call in the source.
C22_Original ==
    (ldPc = "loaded" /\ ldOut.loader = "instructions") =>
        /\ TokensCounted
        /\ \A p \in TokenPlaces, q \in TokenPlaces :
              p < q => ldOut.rewritten.tokens[p] < ldOut.rewritten.tokens[q]

\* C22, amended: after process_g8r_functions the tokens are counted as above;
\* their numbers increase with the place in the source among the calls of
\* one pseudo-function, and every g8r_output call is numbered before every
\* g8r_secret call, and those before every g8r_env call.
C22_NumberedByPattern ==
    (ldPc = "loaded" /\ ldOut.loader = "instructions") =>
        /\ TokensCounted
        /\ \A p \in TokenPlaces, q \in TokenPlaces :
              LET rp == PatternRank(InstructionPatterns, LoadedFlat[p].fn)
                  rq == PatternRank(InstructionPatterns, LoadedFlat[q].fn)
              IN  (rp < rq \/ (rp = rq /\ p < q))
                      => ldOut.rewritten.tokens[p] < ldOut.rewritten.tokens[q]

\* A rewritten source where a g8r_secret call stands before a g8r_output
\* call and two calls of one pseudo-function follow one another.
C22_Witness ==
    /\ ldPc = "loaded" /\ ldOut.loader = "instructions"
    /\ \E p \in TokenPlaces, q \in TokenPlaces, r \in TokenPlaces :
          /\ p < q /\ q < r
          /\ LoadedFlat[p].fn = "g8r_secret"
          /\ LoadedFlat[q].fn = "g8r_output"
          /\ LoadedFlat[r].fn = "g8r_output"
          /\ ldOut.rewritten.tokens[q] < ldOut.rewritten.tokens[p]

\* ------------------------------------------------------------------------
\* Further properties of the planner
\* ------------------------------------------------------------------------

\* C32: topological_sort fails with a "does not exist" error whenever a
\* depends_on names a duty that is not in the duty set, whatever the rest of
\* the graph looks like, a cycle included.
C32_MissingDependencyFails ==
    (DagCalled /\ ~AllDepsExist(dagNodes, dagEdges))
        => (~dagRes.ok /\ dagRes.err = ErrMissing)

\* The planner was called on a graph with a cycle and a depends_on that
\* names a duty outside the set.
C32_Witness ==
    /\ dagRes.op = "topological_sort"
    /\ ~AllDepsExist(dagNodes, dagEdges)
    /\ HasCycle(dagNodes, dagEdges)

\* The duties emitted before batch k.
Earlier(batches, k) == UNION {batches[i] : i \in 1..(k - 1)}

\* The duties a level-wise plan puts in batch k: not emitted earlier, every
\* dependency emitted earlier.
Level(nodes, edges, batches, k) ==
    {n \in nodes \ Earlier(batches, k) : Range(edges[n]) \subseteq Earlier(batches, k)}

\* The number of duties on the longest dependency chain that ends in n, for
\* an acyclic graph whose references all exist.
RECURSIVE ChainLen(_, _)
ChainLen(edges, n) ==
    LET below == {ChainLen(edges, d) : d \in Range(edges[n])}
    IN  IF below = {} THEN 1
        ELSE 1 + (CHOOSE m \in below : \A x \in below : x <= m)

LongestChain(nodes, edges) ==
    LET lens == {ChainLen(edges, n) : n \in nodes}
    IN  IF lens = {} THEN 0 ELSE CHOOSE m \in lens : \A x \in lens : x <= m

\* C40: for an acyclic duty set whose references all exist, topological_sort
\* succeeds with level-wise batches: every batch is exactly the set of
\* duties not emitted earlier whose dependencies were all emitted earlier
\* (the first batch being the duties without dependencies), and the number
\* of batches is the number of duties on the longest dependency chain. A
\* depends_on list that names the same duty twice changes nothing.
C40_LevelWiseBatches ==
    (dagRes.op = "topological_sort" /\ AllDepsExist(dagNodes, dagEdges)
        /\ ~HasCycle(dagNodes, dagEdges))
        => /\ dagRes.ok
           /\ \A k \in DOMAIN dagRes.batches :
                  dagRes.batches[k] = Level(dagNodes, dagEdges, dagRes.batches, k)
           /\ Len(dagRes.batches) = LongestChain(dagNodes, dagEdges)

\* topological_sort returned a plan of three batches for a chain in which a
\* duty lists the same dependency twice.
C40_Witness ==
    /\ dagRes.op = "topological_sort"
    /\ dagRes.ok
    /\ Len(dagRes.batches) = 3
    /\ \E n \in dagNodes :
           /\ Len(dagEdges[n]) = 2
           /\ dagEdges[n][1] = dagEdges[n][2]

\* ------------------------------------------------------------------------
\* Properties of a failed reconciliation and of the persisted status
\* ------------------------------------------------------------------------

\* The apply logged at place i returned a document and its duty is not the
\* one the run failed at.
CompletedAt(i) ==
    /\ ctlLog[i].op = "apply" /\ ctlLog[i].res = "ok"
    /\ ~(i + 1 = Len(ctlLog) /\ ctlLog[i + 1].res = "err"
          /\ ctlLog[i + 1].duty = ctlLog[i].duty)

\* C31: when a reconciliation has aborted at a failing duty, the persisted
\* status of every duty whose apply completed earlier in that run is the
\* document its apply returned, for the rows no other client wrote during
\* the run.
C31_CompletedKeepStatus ==
    ctlPc = "failed"
        => \A i \in DOMAIN ctlLog :
              (CompletedAt(i) /\ ctlLog[i].duty \notin ctlOthers)
                  => /\ ctlLog[i].duty \in DOMAIN db
                     /\ db[ctlLog[i].duty].status = ctlLog[i].doc

\* A run from the configuration failed at a duty after the apply of another
\* duty had returned a document with outputs.
C31_Witness ==
    /\ ctlMode = "nickel" /\ ctlPc = "failed" /\ ctlLog # <<>>
    /\ ctlLog[Len(ctlLog)].res = "err"
    /\ \E i \in DOMAIN ctlLog :
          /\ CompletedAt(i) /\ ctlLog[i].doc.has
          /\ ctlLog[i].duty # ctlLog[Len(ctlLog)].duty

\* C33: the plan reconcile_from_nickel executes holds exactly the duties the
\* evaluated configuration declares: a duty persisted earlier by another
\* stack or configuration is neither applied nor makes the run fail.
C33_PlanIsConfiguration ==
    ctlMode = "nickel"
        => /\ ctlPlan # <<>> => UNION Range(ctlPlan) = cfg.names
           /\ \A i \in DOMAIN ctlLog : ctlLog[i].duty \in cfg.names
           /\ ctlErr # ErrNotFound

\* What the controller's run hands back to reconcile_once.
ControllerResult ==
    IF ctlPc = "done" THEN "ok" ELSE IF ctlPc = "failed" THEN "err" ELSE "none"

\* C34: a stack is marked synced and its cursor advanced only if every duty
\* applied in that reconciliation returned phase deployed, so that a duty
\* left pending is applied again on a later cycle of the same version.
C34_SyncedOnlyIfDeployed ==
    LET before == [status |-> "syncing", last_sync_version |-> "v1"]
        after  == OnReconciled(before, ControllerResult, "v2")
    IN  (ctlMode = "nickel" /\ after.status = "synced" /\ after.last_sync_version = "v2")
            => \A i \in DOMAIN ctlLog :
                  (ctlLog[i].op = "apply" /\ ctlLog[i].res = "ok")
                      => ctlLog[i].doc.phase = "deployed"

\* C35: a duty's persisted status is the last module result for it: the
\* upsert at the start of reconcile_from_nickel leaves the status of a duty
\* that exists already as it was, and the status changes only when the
\* result of the duty's apply is written.
C35_StatusIsLastResult ==
    [][\A d \in DOMAIN db :
          (d \in DOMAIN db' /\ db'[d].status # db[d].status)
              => (ctlPc = "status" /\ ctlDuty.name = d /\ db'[d].status \in ApplyDocs)]_vars

\* C36: S3BucketModule.apply with a website_config tries configure_website
\* at most 5 times and succeeds whenever one of those attempts succeeds; it
\* returns the configuration error only when all 5 attempts fail.
C36_RetrySucceedsOnAnySuccess ==
    (rtRes.op = "apply" /\ rtWebsite)
        => /\ rtRes.attempts <= MaxRetries
           /\ rtRes.ok <=> (\E i \in 1..MaxRetries : rtOutcomes[i])

\* C37: when unregister_stack(id) or stop() returns, no reconciliation task
\* of a stack whose handle it took from the map is running, also when a
\* register_stack for that stack has spawned its task and not yet put the
\* handle into the map.
C37_NoTaskAfterUnregister ==
    [][\A r \in RowIds :
          (handles[r] # 0 /\ handles'[r] = 0)
              => \A i \in DOMAIN tasks' :
                    (tasks'[i].kind = "loop" /\ tasks'[i].id = r) => ~Running(tasks'[i])]_vars

\* C38: whenever a stack's persisted status is syncing, a reconciliation of
\* that stack is in progress: once it has ended, by success, by failure or by
\* the cancellation of its task, the status is no longer syncing.
C38_SyncingMeansReconciling ==
    \A s \in StackIds : stacks[s].status = "syncing" => Reconciling(s) # {}

\* ------------------------------------------------------------------------
\* Properties of the key-value stores
\* ------------------------------------------------------------------------

\* The step is a call of the given operation on the stores.
KvStep(op) == kvOps' = kvOps + 1 /\ kvLast'.op = op

\* C23: GlobalKvStore.set returns an error for every variable of type Var,
\* StackContext.set returns an error for every variable of type Global or
\* Const, and the rejected write leaves the contents of the stores as they
\* were.
C23_RejectedWrites ==
    [][/\ (KvStep("global_set") /\ kvLast'.ty = "Var")
            => (~kvLast'.ok /\ kvGlobal' = kvGlobal /\ kvStack' = kvStack)
       /\ (KvStep("stack_set") /\ kvLast'.ty \in {"Global", "Const"})
            => (~kvLast'.ok /\ kvStack' = kvStack /\ kvGlobal' = kvGlobal)]_vars

\* A Var was refused by a global store that holds an entry under that key.
C23_Witness ==
    /\ kvLast.op = "global_set" /\ kvLast.ty = "Var" /\ ~kvLast.ok
    /\ kvLast.key \in DOMAIN kvGlobal
    /\ kvGlobal[kvLast.key].value # kvLast.json

\* The calls that set a variable.
SetCalls ==
    {"stack_set", "global_set", "context_set", "set_bulk", "set_bulk_prefix",
     "set_if_not_exists"}

\* C24: a Const value is read-only after load: VariableContext.set with type
\* Const always fails, and once a Const entry is stored under a key no later
\* set on any store changes the value or the type held for that key.
C24_ConstReadOnly ==
    [][/\ (KvStep("context_set") /\ kvLast'.ty = "Const") => ~kvLast'.ok
       /\ kvLast'.op \in SetCalls
            => /\ \A k \in DOMAIN kvGlobal :
                     kvGlobal[k].var_type = "Const"
                        => (k \in DOMAIN kvGlobal' /\ kvGlobal'[k] = kvGlobal[k])
               /\ \A k \in DOMAIN kvStack :
                     kvStack[k].var_type = "Const"
                        => (k \in DOMAIN kvStack' /\ kvStack'[k] = kvStack[k])]_vars

RECURSIVE Leaves(_)
\* The leaves of a document, each with its path from the root.
Leaves(json) ==
    IF json.t = "object"
    THEN UNION {{[path |-> <<n>> \o l.path, value |-> l.value] : l \in Leaves(json.f[n])}
                    : n \in DOMAIN json.f}
    ELSE {[path |-> <<>>, value |-> json]}

\* C25: after set_bulk on a JSON object, every leaf at the nested path
\* p1.p2...pn is retrievable with get("<prefix>.p1.p2...pn"), at every
\* nesting depth.
C25_BulkLeavesRetrievable ==
    (kvLast.op \in {"set_bulk", "set_bulk_prefix"} /\ kvLast.ok /\ kvLast.json.t = "object")
        => \A l \in Leaves(kvLast.json) :
              /\ (kvLast.key \o l.path) \in DOMAIN kvGlobal
              /\ kvGlobal[kvLast.key \o l.path].value = l.value

\* C26: generating the runtime context from the same stack state yields
\* equal trees, also when stored keys overlap (duties.b.outputs and
\* duties.b.outputs.arn), and generating it does not change the store.
C26_ContextIdempotent ==
    kvLast.op = "get_duties_context"
        => /\ kvLast.ok
           /\ \A o \in IterationOrders(DOMAIN kvStack) :
                 GetDutiesContext(kvStack, o) = [ok |-> TRUE, tree |-> kvLast.res]

\* C39: set_if_not_exists is atomic on both stores: of several tasks that
\* call it concurrently for one absent key exactly one gets true, and it
\* never overwrites a value that is present.
C39_SetIfNotExistsAtomic ==
    [][\A c \in Callers :
          (kvCallers[c].pc = "checked" /\ kvCallers'[c].pc = "done")
              => LET key   == CallerVariable(c, kvCallers[c].store).key
                     store == IF kvCallers[c].store = "stack" THEN kvStack ELSE kvGlobal
                 IN  Exists(store, key)
                        => /\ ~kvCallers'[c].res
                           /\ kvStack' = kvStack /\ kvGlobal' = kvGlobal]_vars

\* ------------------------------------------------------------------------
\* Properties of roster matching and module selection
\* ------------------------------------------------------------------------

\* The roster has every trait of the selector, and its roster_type when the
\* selector gives one.
Satisfies(sel, r) ==
    /\ sel.hasTraits => sel.traits \subseteq r.traits
    /\ sel.roster_type # "" => r.roster_type = sel.roster_type

C28_MatchDeterministic ==
    [][(/\ selOps' = selOps + 1
        /\ selLast.op = "match_roster" /\ selLast'.op = "match_roster"
        /\ selLast'.sel = selLast.sel /\ selLast'.rows = selLast.rows)
          => selLast'.roster = selLast.roster]_vars

\* C29: select_module returns a registered module that supports the duty's
\* type, the first registered one when several do, and an error when no
\* registered module supports it.
C29_FirstRegisteredModule ==
    selLast.op = "select_module"
        => LET sup == {i \in DOMAIN selLast.mods : selLast.ty \in selLast.mods[i].types}
           IN  /\ ~selLast.ok <=> sup = {}
               /\ selLast.ok =>
                     selLast.module = selLast.mods[CHOOSE i \in sup : \A j \in sup : i <= j].name

\* C30: the controller verifies the required roster traits of the module
\* before it calls validate: validate is never called with a roster that
\* lacks a required trait.
C30_TraitsBeforeValidate ==
    [][(/\ ctlPc = "validate" /\ Len(ctlLog') > Len(ctlLog)
        /\ ctlLog'[Len(ctlLog) + 1].op = "validate")
          => ctlDuty.required \subseteq ctlDuty.traits]_vars

\* ------------------------------------------------------------------------
\* Properties of the modules
\* ------------------------------------------------------------------------

\* Caller c's call of op returns in this step, no other call ran while it
\* ran, and the call that returned last before it began was a successful
\* call of prev that ran alone.
ReturnsAfter(c, op, prev) ==
    /\ modCalls[c].op = op
    /\ modCalls'[c] = NoCall
    /\ modCalls[c].alone
    /\ modCalls[c].prev.op = prev
    /\ modCalls[c].prev.res = "ok"
    /\ modCalls[c].prev.alone

\* C17 as stated: an apply that follows a successful apply of the same duty
\* under the same configuration, as two consecutive runs of
\* reconcile_from_nickel make them with no other call between or beside
\* them, returns the same phase and outputs and leaves the resources of the
\* account as they were.
C17_ApplyIdempotent ==
    [][\A c \in ModCallers :
          ReturnsAfter(c, "reconcile_from_nickel", "reconcile_from_nickel")
          => /\ modLast'.res = "ok"
             /\ modLast'.doc = modCalls[c].prev.doc
             /\ Resources(env') = modCalls[c].before
      ]_vars

\* C18 as stated: destroy_from_nickel after a successful reconcile_from_nickel
\* of the same configuration, with no other call between or beside them,
\* succeeds and leaves none of the resources in the account, and a
\* destroy_from_nickel after a successful one succeeds and changes nothing.
C18_DestroyRemovesAll ==
    [][\A c \in ModCallers :
          /\ ReturnsAfter(c, "destroy_from_nickel", "reconcile_from_nickel")
               => /\ modLast'.res = "ok"
                  /\ Resources(env') = Resources(NoEnv)
          /\ ReturnsAfter(c, "destroy_from_nickel", "destroy_from_nickel")
               => /\ modLast'.res = "ok"
                  /\ Resources(env') = modCalls[c].before
      ]_vars

====
